---- MODULE Spec2Model ----
(***************************************************************************)
(* AnkiDrug: the batch study session (src/components/StudySession.tsx,     *)
(* second component), the card store it writes through (src/services/db.ts)*)
(* and the interval scheduler (src/services/srs.ts).                       *)
(*                                                                         *)
(* Time is Date.now() in milliseconds.  Math.random() returns k/RandDenom  *)
(* for k in 0..RandDenom-1; a draw is carried as its numerator k.          *)
(***************************************************************************)
EXTENDS Integers, Sequences, FiniteSets, TLC

(***************************************************************************)
(* Bounds of the model.                                                    *)
(***************************************************************************)
RandDenom == 2          \* Math.random() takes the values 0/RandDenom .. (RandDenom-1)/RandDenom
MaxDeck == 2            \* Spec: decks of 0..MaxDeck cards
MaxInputs == 2          \* Spec: grade inputs per run
MaxInFlight == 2        \* Spec: handleGrade invocations pending at once
MaxTicks == 1           \* Spec: clock advances per run
MaxGrades == 7          \* SpecBatch: grade inputs per run
MaxNonEasy == 2         \* SpecBatch: Again/Hard/Good inputs per run
MaxSrsGrades == 3       \* SpecSrs: grades applied to the card
MaxSrsDays == 1         \* SpecSrs: days the clock advances
MaxDueCards == 3        \* SpecDue: cards in the cards store
MaxPool == 3            \* SpecPick: cards in the easy pool
MaxActive == 2          \* SpecSelect: active cards in the array passed to pickNextCard
MaxOverlapInputs == 8   \* SpecOverlap: grade inputs
PickDenom == 10         \* SpecPick: Math.random() takes the values 0/PickDenom .. (PickDenom-1)/PickDenom
MaxRestartGrades == 3   \* SpecRestart: grade inputs per run
MaxNewGrades == 4       \* SpecNew: grades applied to the new card
MaxQueueCards == 2      \* SpecQueue: cards of the small stores
MaxQueueGrades == 3     \* SpecQueue: grade inputs per run

(***************************************************************************)
(* Program constants.                                                      *)
(***************************************************************************)
Again == 1
Hard == 2
Good == 3
Easy == 4
Grades == {Again, Hard, Good, Easy}

INTERVALS_AGAIN == 60000
INTERVALS_HARD == 180000
INTERVALS_GOOD == 900000
INTERVALS_EASY == 3600000

BATCH_SIZE == 10              \* fillActiveBatch: needed = 10 - currentActiveCount
CONFIDENT_THRESHOLD == 5      \* handleGrade: confidentActive > 5
REINFORCEMENT_GAP == 3        \* pickNextCard: cardsSinceReinforcementRef.current >= 3

NullId == 0                   \* currentCardId / lastShownIdRef = null
Undef == -1                   \* a card record without a difficultyScore field

ClockStep == INTERVALS_AGAIN  \* the clock advances in steps of one minute

VARIABLES
    store,                    \* Card Store: card id -> stored difficultyScore (Undef when missing)
    persisted,                \* Card Store: card id -> the stored card's SRS fields
    logs,                     \* logs object store: set of ReviewLog records, keyed by studiedAt
    now,                      \* Date.now()
    loading,                  \* useState loading
    cards,                    \* useState cards / cardsMapRef: the SessionCard objects, in array order
    currentCardId,            \* useState currentCardId
    isFlipped,                \* useState isFlipped
    lastShownId,              \* lastShownIdRef.current
    cardsSinceReinforcement,  \* cardsSinceReinforcementRef.current
    inflight,                 \* handleGrade invocations suspended at an await
    inputs,                   \* grade inputs received so far, per grade
    pickInfo,                 \* history: the last run of pickNextCard
    settings,                 \* AppSettings in effect
    card,                     \* scheduler: the card calculateNextReview is applied to
    srsNow,                   \* scheduler: Date.now(), in days
    srsCount,                 \* scheduler: grades applied so far
    srsLast,                  \* scheduler: history of the last application
    srsDesc,                  \* scheduler: history of the last getSchedulingDescription call
    cardStore,                \* due-card service: the cards store, card id -> Card
    dueResult,                \* due-card service: history of the last getDueCards call
    poolPick,                 \* reinforcement draw: history of the last weighted selection
    pickCall,                 \* selection: the arguments and the result of one pickNextCard call
    queue,                    \* due-card session: useState queue, as indices into cardStore
    currentCard,              \* due-card session: useState currentCard (NullId for null)
    stats,                    \* due-card session: useState stats
    dueLoading,               \* due-card session: useState loading
    copies,                   \* due-card session: the Card objects held in queue / currentCard, by id
    dueFlipped,               \* due-card session: useState isFlipped
    grading,                  \* due-card session: handleGrade invocations suspended at an await
    dueLog                    \* due-card session: the records passed to logReview, in order

vars == <<store, persisted, logs, now, loading, cards, currentCardId, isFlipped, lastShownId,
          cardsSinceReinforcement, inflight, inputs, pickInfo,
          settings, card, srsNow, srsCount, srsLast, srsDesc, cardStore, dueResult, poolPick,
          pickCall, queue, currentCard, stats, dueLoading, copies, dueFlipped, grading, dueLog>>

sessionVars == <<store, persisted, logs, now, loading, cards, currentCardId, isFlipped, lastShownId,
                 cardsSinceReinforcement, inflight, inputs, pickInfo>>

srsVars == <<settings, card, srsNow, srsCount, srsLast, srsDesc>>

gradeVars == <<dueFlipped, grading, dueLog>>

queueVars == <<queue, currentCard, stats, dueLoading, copies, gradeVars>>

dueVars == <<cardStore, dueResult, queueVars>>

pickVars == <<poolPick, pickCall>>

(***************************************************************************)
(* Array helpers (Array.prototype.filter, indices).                        *)
(***************************************************************************)
RECURSIVE Ascending(_)
\* the indices of S in increasing order (filter keeps the array order)
Ascending(S) ==
    IF S = {} THEN <<>>
    ELSE LET m == CHOOSE x \in S : \A y \in S : x <= y
         IN <<m>> \o Ascending(S \ {m})

\* indices (in array order) of the elements of allCards in the given sessionState
IdxInState(allCards, st) ==
    Ascending({i \in 1..Len(allCards) : allCards[i].sessionState = st})

ActiveIdx(allCards) == IdxInState(allCards, "active")
EasyPoolIdx(allCards) == IdxInState(allCards, "easyPool")
UnseenIdx(allCards) == IdxInState(allCards, "unseen")

\* card.difficultyScore || 0
ScoreOrZero(s) == IF s = Undef THEN 0 ELSE s

\* cardsMapRef.current.get(id): index of the card in the array, 0 when absent
IndexOfId(allCards, id) ==
    IF \E i \in 1..Len(allCards) : allCards[i].id = id
    THEN CHOOSE i \in 1..Len(allCards) : allCards[i].id = id
    ELSE 0

(***************************************************************************)
(* shuffle: Fisher-Yates as written; draws[k] is the numerator of the      *)
(* Math.random() value used while currentIndex = k.                        *)
(***************************************************************************)
RECURSIVE ShuffleFrom(_, _, _)
ShuffleFrom(array, currentIndex, draws) ==
    IF currentIndex = 0 THEN array
    ELSE LET randomIndex == (draws[currentIndex] * currentIndex) \div RandDenom
             ci == currentIndex - 1
         IN ShuffleFrom([array EXCEPT ![ci + 1] = array[randomIndex + 1],
                                      ![randomIndex + 1] = array[ci + 1]],
                        ci, draws)

shuffle(array, draws) == ShuffleFrom(array, Len(array), draws)

\* the draw sequences enumerated for one shuffle: every call returns the same value
ConstDraws(n, r) == [k \in 1..n |-> r]

Rand == 0..(RandDenom - 1)

(***************************************************************************)
(* fillActiveBatch                                                         *)
(***************************************************************************)
Min(a, b) == IF a < b THEN a ELSE b
Max(a, b) == IF a > b THEN a ELSE b

\* fill-batch with the target off by one
fillActiveBatch_OffByOne(allCards) ==
    LET currentActiveCount == Len(ActiveIdx(allCards))
        needed == BATCH_SIZE + 1 - currentActiveCount
        unseen == UnseenIdx(allCards)
        promote == IF needed > 0
                   THEN {unseen[i] : i \in 1..Min(needed, Len(unseen))}
                   ELSE {}
    IN [i \in 1..Len(allCards) |->
           IF i \in promote THEN [allCards[i] EXCEPT !.sessionState = "active"]
           ELSE allCards[i]]

\* fill-batch that takes the last unseen cards instead of the first
fillActiveBatch_FromEnd(allCards) ==
    LET currentActiveCount == Len(ActiveIdx(allCards))
        needed == BATCH_SIZE - currentActiveCount
        unseen == UnseenIdx(allCards)
        promote == IF needed > 0
                   THEN {unseen[Len(unseen) + 1 - i] : i \in 1..Min(needed, Len(unseen))}
                   ELSE {}
    IN [i \in 1..Len(allCards) |->
           IF i \in promote THEN [allCards[i] EXCEPT !.sessionState = "active"]
           ELSE allCards[i]]

fillActiveBatch(allCards) ==
    LET currentActiveCount == Len(ActiveIdx(allCards))
        needed == BATCH_SIZE - currentActiveCount
        unseen == UnseenIdx(allCards)
        promote == IF needed > 0
                   THEN {unseen[i] : i \in 1..Min(needed, Len(unseen))}
                   ELSE {}
    IN [i \in 1..Len(allCards) |->
           IF i \in promote THEN [allCards[i] EXCEPT !.sessionState = "active"]
           ELSE allCards[i]]

(***************************************************************************)
(* pickNextCard(allCards) at clock value t with random draw r.  Returns    *)
(* the new currentCardId, lastShownIdRef, counter and isFlipped, and the   *)
(* branch taken.                                                           *)
(***************************************************************************)
RECURSIVE WeightedFrom_Unweighted(_, _, _, _, _)
\* the for-loop with every card weighing 1
WeightedFrom_Unweighted(allCards, pool, i, random, denom) ==
    IF i > Len(pool) THEN pool[1]
    ELSE LET left == random - denom
         IN IF left <= 0 THEN pool[i]
            ELSE WeightedFrom_Unweighted(allCards, pool, i + 1, left, denom)

RECURSIVE WeightedFrom(_, _, _, _, _)
\* the for-loop of the reinforcement pick: random is carried times denom, the
\* denominator of the Math.random() value
WeightedFrom(allCards, pool, i, random, denom) ==
    IF i > Len(pool) THEN pool[1]
    ELSE LET left == random - (ScoreOrZero(allCards[pool[i]].difficultyScore) + 1) * denom
         IN IF left <= 0 THEN pool[i]
            ELSE WeightedFrom(allCards, pool, i + 1, left, denom)

RECURSIVE SumWeights(_, _, _)
SumWeights(allCards, pool, i) ==
    IF i > Len(pool) THEN 0
    ELSE ScoreOrZero(allCards[pool[i]].difficultyScore) + 1 + SumWeights(allCards, pool, i + 1)

\* pickNextCard that signals completion when the only active card is the one just shown
pickNextCard_StopsOnRepeat(allCards, t, r, cur, lastShown, since, flipped) ==
    LET active == ActiveIdx(allCards)
        easyPool == EasyPoolIdx(allCards)
        due == Ascending({i \in 1..Len(allCards) :
                   allCards[i].sessionState = "active" /\ allCards[i].sessionDueTime <= t})
        candidates == Ascending({i \in 1..Len(allCards) :
                   allCards[i].sessionState = "active" /\ allCards[i].id # lastShown})
    IN IF since >= REINFORCEMENT_GAP /\ Len(easyPool) > 0
       THEN LET totalWeight == SumWeights(allCards, easyPool, 1)
                selected == WeightedFrom(allCards, easyPool, 1, r * totalWeight, RandDenom)
            IN [currentCardId |-> allCards[selected].id,
                lastShownId |-> allCards[selected].id,
                since |-> 0, isFlipped |-> FALSE, branch |-> "reinforcement"]
       ELSE IF Len(due) > 0
       THEN LET candidate == shuffle(due, ConstDraws(Len(due), r))[1]
            IN [currentCardId |-> allCards[candidate].id,
                lastShownId |-> allCards[candidate].id,
                since |-> since, isFlipped |-> FALSE, branch |-> "due"]
       ELSE IF Len(candidates) > 0
       THEN LET candidate == candidates[((r * Len(candidates)) \div RandDenom) + 1]
            IN [currentCardId |-> allCards[candidate].id,
                lastShownId |-> allCards[candidate].id,
                since |-> since, isFlipped |-> FALSE, branch |-> "fresh"]
       ELSE IF Len(active) > 0
       THEN [currentCardId |-> NullId,
             lastShownId |-> lastShown,
             since |-> since, isFlipped |-> FALSE, branch |-> "repeat"]
       ELSE IF Len(easyPool) > 0
       THEN LET candidate == easyPool[((r * Len(easyPool)) \div RandDenom) + 1]
            IN [currentCardId |-> allCards[candidate].id,
                lastShownId |-> lastShown,
                since |-> since, isFlipped |-> FALSE, branch |-> "pool"]
       ELSE [currentCardId |-> NullId,
             lastShownId |-> lastShown,
             since |-> since, isFlipped |-> flipped, branch |-> "none"]

\* pickNextCard whose reinforcement pick leaves the counter as it is
pickNextCard_NoReset(allCards, t, r, cur, lastShown, since, flipped) ==
    LET active == ActiveIdx(allCards)
        easyPool == EasyPoolIdx(allCards)
        due == Ascending({i \in 1..Len(allCards) :
                   allCards[i].sessionState = "active" /\ allCards[i].sessionDueTime <= t})
        candidates == Ascending({i \in 1..Len(allCards) :
                   allCards[i].sessionState = "active" /\ allCards[i].id # lastShown})
    IN IF since >= REINFORCEMENT_GAP /\ Len(easyPool) > 0
       THEN LET totalWeight == SumWeights(allCards, easyPool, 1)
                selected == WeightedFrom(allCards, easyPool, 1, r * totalWeight, RandDenom)
            IN [currentCardId |-> allCards[selected].id,
                lastShownId |-> allCards[selected].id,
                since |-> since, isFlipped |-> FALSE, branch |-> "reinforcement"]
       ELSE IF Len(due) > 0
       THEN LET candidate == shuffle(due, ConstDraws(Len(due), r))[1]
            IN [currentCardId |-> allCards[candidate].id,
                lastShownId |-> allCards[candidate].id,
                since |-> since, isFlipped |-> FALSE, branch |-> "due"]
       ELSE IF Len(candidates) > 0
       THEN LET candidate == candidates[((r * Len(candidates)) \div RandDenom) + 1]
            IN [currentCardId |-> allCards[candidate].id,
                lastShownId |-> allCards[candidate].id,
                since |-> since, isFlipped |-> FALSE, branch |-> "fresh"]
       ELSE IF Len(active) > 0
       THEN [currentCardId |-> allCards[active[1]].id,
             lastShownId |-> lastShown,
             since |-> since, isFlipped |-> FALSE, branch |-> "repeat"]
       ELSE IF Len(easyPool) > 0
       THEN LET candidate == easyPool[((r * Len(easyPool)) \div RandDenom) + 1]
            IN [currentCardId |-> allCards[candidate].id,
                lastShownId |-> lastShown,
                since |-> since, isFlipped |-> FALSE, branch |-> "pool"]
       ELSE [currentCardId |-> NullId,
             lastShownId |-> lastShown,
             since |-> since, isFlipped |-> flipped, branch |-> "none"]

\* pickNextCard that tries the fresh-active pick before the due-now pick
pickNextCard_FreshFirst(allCards, t, r, cur, lastShown, since, flipped) ==
    LET active == ActiveIdx(allCards)
        easyPool == EasyPoolIdx(allCards)
        due == Ascending({i \in 1..Len(allCards) :
                   allCards[i].sessionState = "active" /\ allCards[i].sessionDueTime <= t})
        candidates == Ascending({i \in 1..Len(allCards) :
                   allCards[i].sessionState = "active" /\ allCards[i].id # lastShown})
    IN IF since >= REINFORCEMENT_GAP /\ Len(easyPool) > 0
       THEN LET totalWeight == SumWeights(allCards, easyPool, 1)
                selected == WeightedFrom(allCards, easyPool, 1, r * totalWeight, RandDenom)
            IN [currentCardId |-> allCards[selected].id,
                lastShownId |-> allCards[selected].id,
                since |-> 0, isFlipped |-> FALSE, branch |-> "reinforcement"]
       ELSE IF Len(candidates) > 0
       THEN LET candidate == candidates[((r * Len(candidates)) \div RandDenom) + 1]
            IN [currentCardId |-> allCards[candidate].id,
                lastShownId |-> allCards[candidate].id,
                since |-> since, isFlipped |-> FALSE, branch |-> "fresh"]
       ELSE IF Len(due) > 0
       THEN LET candidate == shuffle(due, ConstDraws(Len(due), r))[1]
            IN [currentCardId |-> allCards[candidate].id,
                lastShownId |-> allCards[candidate].id,
                since |-> since, isFlipped |-> FALSE, branch |-> "due"]
       ELSE IF Len(active) > 0
       THEN [currentCardId |-> allCards[active[1]].id,
             lastShownId |-> lastShown,
             since |-> since, isFlipped |-> FALSE, branch |-> "repeat"]
       ELSE IF Len(easyPool) > 0
       THEN LET candidate == easyPool[((r * Len(easyPool)) \div RandDenom) + 1]
            IN [currentCardId |-> allCards[candidate].id,
                lastShownId |-> lastShown,
                since |-> since, isFlipped |-> FALSE, branch |-> "pool"]
       ELSE [currentCardId |-> NullId,
             lastShownId |-> lastShown,
             since |-> since, isFlipped |-> flipped, branch |-> "none"]

\* pickNextCard that falls back to the easy pool before it repeats the only active card
pickNextCard_PoolFirst(allCards, t, r, cur, lastShown, since, flipped) ==
    LET active == ActiveIdx(allCards)
        easyPool == EasyPoolIdx(allCards)
        due == Ascending({i \in 1..Len(allCards) :
                   allCards[i].sessionState = "active" /\ allCards[i].sessionDueTime <= t})
        candidates == Ascending({i \in 1..Len(allCards) :
                   allCards[i].sessionState = "active" /\ allCards[i].id # lastShown})
    IN IF since >= REINFORCEMENT_GAP /\ Len(easyPool) > 0
       THEN LET totalWeight == SumWeights(allCards, easyPool, 1)
                selected == WeightedFrom(allCards, easyPool, 1, r * totalWeight, RandDenom)
            IN [currentCardId |-> allCards[selected].id,
                lastShownId |-> allCards[selected].id,
                since |-> 0, isFlipped |-> FALSE, branch |-> "reinforcement"]
       ELSE IF Len(due) > 0
       THEN LET candidate == shuffle(due, ConstDraws(Len(due), r))[1]
            IN [currentCardId |-> allCards[candidate].id,
                lastShownId |-> allCards[candidate].id,
                since |-> since, isFlipped |-> FALSE, branch |-> "due"]
       ELSE IF Len(candidates) > 0
       THEN LET candidate == candidates[((r * Len(candidates)) \div RandDenom) + 1]
            IN [currentCardId |-> allCards[candidate].id,
                lastShownId |-> allCards[candidate].id,
                since |-> since, isFlipped |-> FALSE, branch |-> "fresh"]
       ELSE IF Len(easyPool) > 0
       THEN LET candidate == easyPool[((r * Len(easyPool)) \div RandDenom) + 1]
            IN [currentCardId |-> allCards[candidate].id,
                lastShownId |-> lastShown,
                since |-> since, isFlipped |-> FALSE, branch |-> "pool"]
       ELSE IF Len(active) > 0
       THEN [currentCardId |-> allCards[active[1]].id,
             lastShownId |-> lastShown,
             since |-> since, isFlipped |-> FALSE, branch |-> "repeat"]
       ELSE [currentCardId |-> NullId,
             lastShownId |-> lastShown,
             since |-> since, isFlipped |-> flipped, branch |-> "none"]

\* pickNextCard without the pool fallback: no active card means no current card
pickNextCard_NoPoolFallback(allCards, t, r, cur, lastShown, since, flipped) ==
    LET active == ActiveIdx(allCards)
        easyPool == EasyPoolIdx(allCards)
        due == Ascending({i \in 1..Len(allCards) :
                   allCards[i].sessionState = "active" /\ allCards[i].sessionDueTime <= t})
        candidates == Ascending({i \in 1..Len(allCards) :
                   allCards[i].sessionState = "active" /\ allCards[i].id # lastShown})
    IN IF since >= REINFORCEMENT_GAP /\ Len(easyPool) > 0
       THEN LET totalWeight == SumWeights(allCards, easyPool, 1)
                selected == WeightedFrom(allCards, easyPool, 1, r * totalWeight, RandDenom)
            IN [currentCardId |-> allCards[selected].id,
                lastShownId |-> allCards[selected].id,
                since |-> 0, isFlipped |-> FALSE, branch |-> "reinforcement"]
       ELSE IF Len(due) > 0
       THEN LET candidate == shuffle(due, ConstDraws(Len(due), r))[1]
            IN [currentCardId |-> allCards[candidate].id,
                lastShownId |-> allCards[candidate].id,
                since |-> since, isFlipped |-> FALSE, branch |-> "due"]
       ELSE IF Len(candidates) > 0
       THEN LET candidate == candidates[((r * Len(candidates)) \div RandDenom) + 1]
            IN [currentCardId |-> allCards[candidate].id,
                lastShownId |-> allCards[candidate].id,
                since |-> since, isFlipped |-> FALSE, branch |-> "fresh"]
       ELSE IF Len(active) > 0
       THEN [currentCardId |-> allCards[active[1]].id,
             lastShownId |-> lastShown,
             since |-> since, isFlipped |-> FALSE, branch |-> "repeat"]
       ELSE [currentCardId |-> NullId,
             lastShownId |-> lastShown,
             since |-> since, isFlipped |-> flipped, branch |-> "none"]

pickNextCard(allCards, t, r, cur, lastShown, since, flipped) ==
    LET active == ActiveIdx(allCards)
        easyPool == EasyPoolIdx(allCards)
        due == Ascending({i \in 1..Len(allCards) :
                   allCards[i].sessionState = "active" /\ allCards[i].sessionDueTime <= t})
        candidates == Ascending({i \in 1..Len(allCards) :
                   allCards[i].sessionState = "active" /\ allCards[i].id # lastShown})
    IN IF since >= REINFORCEMENT_GAP /\ Len(easyPool) > 0
       THEN LET totalWeight == SumWeights(allCards, easyPool, 1)
                selected == WeightedFrom(allCards, easyPool, 1, r * totalWeight, RandDenom)
            IN [currentCardId |-> allCards[selected].id,
                lastShownId |-> allCards[selected].id,
                since |-> 0, isFlipped |-> FALSE, branch |-> "reinforcement"]
       ELSE IF Len(due) > 0
       THEN LET candidate == shuffle(due, ConstDraws(Len(due), r))[1]
            IN [currentCardId |-> allCards[candidate].id,
                lastShownId |-> allCards[candidate].id,
                since |-> since, isFlipped |-> FALSE, branch |-> "due"]
       ELSE IF Len(candidates) > 0
       THEN LET candidate == candidates[((r * Len(candidates)) \div RandDenom) + 1]
            IN [currentCardId |-> allCards[candidate].id,
                lastShownId |-> allCards[candidate].id,
                since |-> since, isFlipped |-> FALSE, branch |-> "fresh"]
       ELSE IF Len(active) > 0
       THEN [currentCardId |-> allCards[active[1]].id,
             lastShownId |-> lastShown,
             since |-> since, isFlipped |-> FALSE, branch |-> "repeat"]
       ELSE IF Len(easyPool) > 0
       THEN LET candidate == easyPool[((r * Len(easyPool)) \div RandDenom) + 1]
            IN [currentCardId |-> allCards[candidate].id,
                lastShownId |-> lastShown,
                since |-> since, isFlipped |-> FALSE, branch |-> "pool"]
       ELSE [currentCardId |-> NullId,
             lastShownId |-> lastShown,
             since |-> since, isFlipped |-> flipped, branch |-> "none"]


(***************************************************************************)
(* Rational numbers <<numerator, denominator>> in lowest terms, for the    *)
(* real-valued fields intervalDays, easeFactor and dueDate.  Time of the   *)
(* scheduler is counted in days: a minute is 1/1440.                       *)
(***************************************************************************)
RECURSIVE Gcd(_, _)
Gcd(a, b) == IF b = 0 THEN a ELSE Gcd(b, a % b)

Abs(a) == IF a < 0 THEN -a ELSE a

Norm(q) ==
    LET g == Gcd(Abs(q[1]), q[2])
    IN IF g = 0 THEN <<0, 1>> ELSE <<q[1] \div g, q[2] \div g>>

RAdd(p, q) == Norm(<<p[1] * q[2] + q[1] * p[2], p[2] * q[2]>>)
RSub(p, q) == Norm(<<p[1] * q[2] - q[1] * p[2], p[2] * q[2]>>)
RMul(p, q) ==
    LET a == Norm(<<p[1], q[2]>>)
        b == Norm(<<q[1], p[2]>>)
    IN Norm(<<a[1] * b[1], a[2] * b[2]>>)
RLeq(p, q) ==
    LET g == Gcd(p[2], q[2])
    IN p[1] * (q[2] \div g) <= q[1] * (p[2] \div g)
RMax(p, q) == IF RLeq(p, q) THEN q ELSE p
RInt(n) == <<n, 1>>

MIN_EASE_FACTOR == <<13, 10>>
MILLISECONDS_IN_DAY == <<1, 1>>
MILLISECONDS_IN_MINUTE == <<1, 1440>>

DEFAULT_SETTINGS ==
    [newCardsPerDay |-> 20, reviewsPerDay |-> 100, learningSteps |-> <<1, 10>>,
     initialEaseFactor |-> <<5, 2>>, easyBonus |-> <<13, 10>>]

(***************************************************************************)
(* calculateNextReview(card, grade, settings) at clock value t: the        *)
(* Partial<Card> it returns, as a record holding the fields it sets.       *)
(***************************************************************************)
\* the first learning step without the fallback to 1
FirstStep_NoFallback(s) ==
    IF Len(s.learningSteps) = 0 THEN 0 ELSE s.learningSteps[1]

\* settings.learningSteps[0] || 1
FirstStep(s) ==
    IF Len(s.learningSteps) = 0 \/ s.learningSteps[1] = 0 THEN 1 ELSE s.learningSteps[1]

\* Math.max(MIN_EASE_FACTOR, easeFactor - 0.2), without the floor
EaseAfterAgain_NoFloor(ease) == RSub(ease, <<1, 5>>)

\* Math.max(MIN_EASE_FACTOR, easeFactor - 0.2)
EaseAfterAgain(ease) == RMax(MIN_EASE_FACTOR, RSub(ease, <<1, 5>>))

\* a lapse of a review card sent to 'relearning' instead of 'learning'
AgainUpdate_Relearning(c, s, t) ==
    [state |-> IF c.state = "review" THEN "relearning" ELSE "learning",
     repetitions |-> 0,
     lapses |-> c.lapses + 1,
     intervalDays |-> RInt(0),
     dueDate |-> RAdd(RInt(t), RMul(RInt(FirstStep(s)), MILLISECONDS_IN_MINUTE)),
     easeFactor |-> EaseAfterAgain(c.easeFactor)]

\* Grade 1 (Again)
AgainUpdate(c, s, t) ==
    [state |-> "learning",
     repetitions |-> 0,
     lapses |-> c.lapses + 1,
     intervalDays |-> RInt(0),
     dueDate |-> RAdd(RInt(t), RMul(RInt(FirstStep(s)), MILLISECONDS_IN_MINUTE)),
     easeFactor |-> EaseAfterAgain(c.easeFactor)]

\* graduation that counts the repetition instead of setting it to 1
GraduateUpdate_CountsUp(c, t) ==
    [state |-> "review",
     repetitions |-> c.repetitions + 1,
     intervalDays |-> RInt(1),
     dueDate |-> RAdd(RInt(t), MILLISECONDS_IN_DAY),
     easeFactor |-> c.easeFactor]

\* graduation that keeps the card's interval
GraduateUpdate_KeepsInterval(c, t) ==
    [state |-> "review",
     repetitions |-> 1,
     intervalDays |-> c.intervalDays,
     dueDate |-> RAdd(RInt(t), MILLISECONDS_IN_DAY),
     easeFactor |-> c.easeFactor]

\* new / learning, grade >= Good: graduate
GraduateUpdate(c, t) ==
    [state |-> "review",
     repetitions |-> 1,
     intervalDays |-> RInt(1),
     dueDate |-> RAdd(RInt(t), MILLISECONDS_IN_DAY),
     easeFactor |-> c.easeFactor]

\* new / learning, grade = Hard, repeating the first step without the factor 1.5
HardLearningUpdate_PlainStep(s, t) ==
    [state |-> "learning",
     dueDate |-> RAdd(RInt(t), RMul(RInt(FirstStep(s)), MILLISECONDS_IN_MINUTE))]

\* new / learning, grade = Hard
HardLearningUpdate(s, t) ==
    [state |-> "learning",
     dueDate |-> RAdd(RInt(t), RMul(RMul(RInt(FirstStep(s)), <<3, 2>>),
                                    MILLISECONDS_IN_MINUTE))]

\* review phase whose Easy interval uses the ease after its increment
ReviewUpdate_EaseFirst(c, grade, s, t) ==
    LET ease ==
            CASE grade = Hard -> RMax(MIN_EASE_FACTOR, RSub(c.easeFactor, <<3, 20>>))
              [] grade = Easy -> RAdd(c.easeFactor, <<3, 20>>)
              [] OTHER -> c.easeFactor
        nextInterval ==
            CASE grade = Hard -> RMul(c.intervalDays, <<6, 5>>)
              [] grade = Good -> RMul(c.intervalDays, c.easeFactor)
              [] grade = Easy -> RMul(RMul(c.intervalDays, ease), s.easyBonus)
              [] OTHER -> c.intervalDays
    IN [state |-> "review",
        repetitions |-> c.repetitions + 1,
        intervalDays |-> nextInterval,
        dueDate |-> RAdd(RInt(t), RMul(nextInterval, MILLISECONDS_IN_DAY)),
        easeFactor |-> ease]

\* review phase
ReviewUpdate(c, grade, s, t) ==
    LET nextInterval ==
            CASE grade = Hard -> RMul(c.intervalDays, <<6, 5>>)
              [] grade = Good -> RMul(c.intervalDays, c.easeFactor)
              [] grade = Easy -> RMul(RMul(c.intervalDays, c.easeFactor), s.easyBonus)
              [] OTHER -> c.intervalDays
        ease ==
            CASE grade = Hard -> RMax(MIN_EASE_FACTOR, RSub(c.easeFactor, <<3, 20>>))
              [] grade = Easy -> RAdd(c.easeFactor, <<3, 20>>)
              [] OTHER -> c.easeFactor
    IN [state |-> "review",
        repetitions |-> c.repetitions + 1,
        intervalDays |-> nextInterval,
        dueDate |-> RAdd(RInt(t), RMul(nextInterval, MILLISECONDS_IN_DAY)),
        easeFactor |-> ease]

\* the scheduler treating a relearning card as a learning one
calculateNextReview_RelearningGraduates(c, grade, s, t) ==
    IF grade = Again THEN AgainUpdate(c, s, t)
    ELSE IF c.state \in {"new", "learning", "relearning"} /\ grade >= Good
    THEN GraduateUpdate(c, t)
    ELSE IF c.state \in {"new", "learning", "relearning"} /\ grade = Hard
    THEN HardLearningUpdate(s, t)
    ELSE IF c.state = "review" THEN ReviewUpdate(c, grade, s, t)
    ELSE [x \in {} |-> 0]

calculateNextReview(c, grade, s, t) ==
    IF grade = Again THEN AgainUpdate(c, s, t)
    ELSE IF c.state \in {"new", "learning"} /\ grade >= Good THEN GraduateUpdate(c, t)
    ELSE IF c.state \in {"new", "learning"} /\ grade = Hard THEN HardLearningUpdate(s, t)
    ELSE IF c.state = "review" THEN ReviewUpdate(c, grade, s, t)
    ELSE [x \in {} |-> 0]

\* Math.round of a rational: the nearest integer, halves upwards
Round(q) == (2 * q[1] + q[2]) \div (2 * q[2])

RLess(p, q) == ~RLeq(q, p)

\* the description without Math.max(1, ...) in its minutes branch
getSchedulingDescription_NoMinimum(c, grade, s, t, t2) ==
    LET next == calculateNextReview(c, grade, s, t)
    IN IF "dueDate" \notin DOMAIN next THEN [text |-> "?"]
       ELSE LET diff == RSub(next.dueDate, t2)
            IN IF RLess(diff, <<1, 24>>)
               THEN [text |-> "nu", n |-> Round(RMul(diff, RInt(1440))), unit |-> "m",
                     dueDate |-> next.dueDate]
               ELSE IF RLess(diff, RInt(1))
               THEN [text |-> "nu", n |-> Round(RMul(diff, RInt(24))), unit |-> "h",
                     dueDate |-> next.dueDate]
               ELSE [text |-> "nu", n |-> Round(diff), unit |-> "d", dueDate |-> next.dueDate]

\* getSchedulingDescription(card, grade, settings), with calculateNextReview
\* reading the clock at t and the function itself at t2 (in days); the result
\* is '?' or the number n followed by the unit.  A missing dueDate is the only
\* falsy one: Date.now() is never 0.
getSchedulingDescription(c, grade, s, t, t2) ==
    LET next == calculateNextReview(c, grade, s, t)
    IN IF "dueDate" \notin DOMAIN next THEN [text |-> "?"]
       ELSE LET diff == RSub(next.dueDate, t2)
                minutes == Round(RMul(diff, RInt(1440)))
            IN IF RLess(diff, <<1, 24>>)
               THEN [text |-> "nu", n |-> IF minutes < 1 THEN 1 ELSE minutes, unit |-> "m",
                     dueDate |-> next.dueDate]
               ELSE IF RLess(diff, RInt(1))
               THEN [text |-> "nu", n |-> Round(RMul(diff, RInt(24))), unit |-> "h",
                     dueDate |-> next.dueDate]
               ELSE [text |-> "nu", n |-> Round(diff), unit |-> "d", dueDate |-> next.dueDate]

\* a scheduler whose review branch assigns the adjusted ease to card.easeFactor
CardAfterCall_WritesEase(c, grade, s) ==
    IF c.state = "review" /\ grade = Hard
    THEN [c EXCEPT !.easeFactor = RMax(MIN_EASE_FACTOR, RSub(c.easeFactor, <<3, 20>>))]
    ELSE IF c.state = "review" /\ grade = Easy
    THEN [c EXCEPT !.easeFactor = RAdd(c.easeFactor, <<3, 20>>)]
    ELSE c

\* the card object passed to calculateNextReview, after the call: the function
\* destructures the card into locals and assigns to the locals only
CardAfterCall(c, grade, s) == c

\* { ...card, ...updates }
Merge(c, u) == [f \in DOMAIN c |-> IF f \in DOMAIN u THEN u[f] ELSE c[f]]

(***************************************************************************)
(* The Card Store at mount and the decks considered.                       *)
(***************************************************************************)
InitialScores == {Undef, 1}
\* stored scores of a larger deck: missing, 1 or 2, by card id
LargeDeck(n) == [i \in 1..n |-> IF i % 3 = 0 THEN Undef ELSE i % 3]

Decks == UNION {[1..n -> InitialScores] : n \in 0..MaxDeck} \cup {LargeDeck(12)}

BatchDecks == {LargeDeck(12), LargeDeck(17)}

NoPick == [branch |-> "none", prev |-> NullId, afterGrade |-> FALSE]

\* the scheduler's variables while the session runs
NewCard ==
    [state |-> "new", intervalDays |-> RInt(0), easeFactor |-> <<5, 2>>,
     repetitions |-> 0, lapses |-> 0, dueDate |-> RInt(0)]

NoSrs == [grade |-> 0]

NoDesc == [grade |-> 0]

\* the SRS fields of the stored card with id i: as created, or as a due-card
\* session left them
StoredSrs(i) ==
    IF i % 2 = 1 THEN NewCard
    ELSE [state |-> "review", intervalDays |-> RInt(2), easeFactor |-> <<5, 2>>,
          repetitions |-> 3, lapses |-> 1, dueDate |-> RInt(2)]

SrsIdle ==
    /\ settings = DEFAULT_SETTINGS
    /\ card = NewCard
    /\ srsNow = 0
    /\ srsCount = 0
    /\ srsLast = NoSrs
    /\ srsDesc = NoDesc

NoDue == [deckId |-> 0]

\* the due-card session as mounted: useState initial values
QueueIdle ==
    /\ queue = <<>>
    /\ currentCard = NullId
    /\ stats = [new |-> 0, learning |-> 0, review |-> 0]
    /\ dueLoading = TRUE
    /\ copies = <<>>
    /\ dueFlipped = FALSE
    /\ grading = <<>>
    /\ dueLog = <<>>

\* the due-card service while it is not exercised
DueIdle ==
    /\ cardStore = <<>>
    /\ dueResult = NoDue
    /\ QueueIdle

NoPoolPick == [pool |-> <<>>, draw |-> Undef, index |-> 0]

NoCall == [since |-> Undef]

\* the reinforcement draw and the selection while they are not exercised alone
PickIdle ==
    /\ poolPick = NoPoolPick
    /\ pickCall = NoCall

\* the component right after mount: initializeSession is awaiting getCardsForDeck
Mounted(deck) ==
    /\ store = deck
    /\ persisted = [i \in 1..Len(deck) |-> StoredSrs(i)]
    /\ logs = {}
    /\ now = 0
    /\ loading = TRUE
    /\ cards = <<>>
    /\ currentCardId = NullId
    /\ isFlipped = FALSE
    /\ lastShownId = NullId
    /\ cardsSinceReinforcement = 0
    /\ inflight = <<>>
    /\ inputs = [g \in Grades |-> 0]
    /\ pickInfo = NoPick

Init == (\E deck \in Decks : Mounted(deck)) /\ SrsIdle /\ DueIdle /\ PickIdle

InitBatch == (\E deck \in BatchDecks : Mounted(deck)) /\ SrsIdle /\ DueIdle /\ PickIdle

(***************************************************************************)
(* initializeSession, from the resolution of getCardsForDeck on.           *)
(***************************************************************************)
\* getCardsForDeck: the deck's cards in key order
getCardsForDeck == [i \in 1..Len(store) |-> [id |-> i, difficultyScore |-> store[i]]]

SessionCardOf(c) ==
    [id |-> c.id, difficultyScore |-> c.difficultyScore,
     sessionState |-> "unseen", sessionDueTime |-> 0, sessionConfident |-> FALSE,
     sessionGoodStreak |-> 0, lastShownAt |-> 0]

initializeSession(r) ==
    /\ loading
    /\ LET dbCards == getCardsForDeck
           shuffled == shuffle(dbCards, ConstDraws(Len(dbCards), r))
           sessionCards == fillActiveBatch([i \in 1..Len(shuffled) |-> SessionCardOf(shuffled[i])])
           pick == pickNextCard(sessionCards, now, r, currentCardId, lastShownId,
                                cardsSinceReinforcement, isFlipped)
       IN /\ cards' = sessionCards
          /\ currentCardId' = pick.currentCardId
          /\ lastShownId' = pick.lastShownId
          /\ cardsSinceReinforcement' = pick.since
          /\ isFlipped' = pick.isFlipped
          /\ pickInfo' = [branch |-> pick.branch, prev |-> currentCardId, afterGrade |-> FALSE]
    /\ loading' = FALSE
    /\ UNCHANGED <<store, persisted, logs, now, inflight, inputs, srsVars, dueVars, pickVars>>

(***************************************************************************)
(* The Show Answer button.                                                 *)
(***************************************************************************)
ShowAnswer ==
    /\ ~loading
    /\ IndexOfId(cards, currentCardId) # 0
    /\ ~isFlipped
    /\ isFlipped' = TRUE
    /\ UNCHANGED <<store, persisted, logs, now, loading, cards, currentCardId, lastShownId,
                   cardsSinceReinforcement, inflight, inputs, pickInfo, srsVars, dueVars, pickVars>>

(***************************************************************************)
(* handleGrade(grade).  An invocation runs from the click to its first     *)
(* await (GradeInput), through updateCardDifficulty's read and write       *)
(* (DifficultyGet, DifficultyPut), to the resolution of logReview          *)
(* (LogReview), after which it promotes, counts and picks.                 *)
(***************************************************************************)
\* delays taken from the persistent scheduler's learning steps (minutes) and days
IntervalOf_LearningSteps(grade) ==
    CASE grade = Again -> DEFAULT_SETTINGS.learningSteps[1] * 60000
      [] grade = Hard -> DEFAULT_SETTINGS.learningSteps[1] * 90000
      [] grade = Good -> DEFAULT_SETTINGS.learningSteps[2] * 60000
      [] grade = Easy -> 4 * 86400000

IntervalOf(grade) ==
    CASE grade = Again -> INTERVALS_AGAIN
      [] grade = Hard -> INTERVALS_HARD
      [] grade = Good -> INTERVALS_GOOD
      [] grade = Easy -> INTERVALS_EASY

\* a switch whose Again/Hard case also sends an easy-pool card back to active
ApplySwitch_DemotesPool(c, grade) ==
    CASE grade \in {Again, Hard} ->
            [c EXCEPT !.sessionGoodStreak = 0,
                      !.difficultyScore = ScoreOrZero(c.difficultyScore) + 1,
                      !.sessionState = IF c.sessionState = "easyPool"
                                       THEN "active" ELSE c.sessionState]
      [] grade = Good -> [c EXCEPT !.sessionGoodStreak = c.sessionGoodStreak + 1]
      [] grade = Easy -> [c EXCEPT !.sessionConfident = TRUE]

\* a switch whose Again/Hard case also clears the confident flag
ApplySwitch_ClearsFlag(c, grade) ==
    CASE grade \in {Again, Hard} ->
            [c EXCEPT !.sessionGoodStreak = 0,
                      !.difficultyScore = ScoreOrZero(c.difficultyScore) + 1,
                      !.sessionConfident = FALSE]
      [] grade = Good -> [c EXCEPT !.sessionGoodStreak = c.sessionGoodStreak + 1]
      [] grade = Easy -> [c EXCEPT !.sessionConfident = TRUE]

\* the switch on the grade
ApplySwitch(c, grade) ==
    CASE grade \in {Again, Hard} ->
            [c EXCEPT !.sessionGoodStreak = 0,
                      !.difficultyScore = ScoreOrZero(c.difficultyScore) + 1]
      [] grade = Good -> [c EXCEPT !.sessionGoodStreak = c.sessionGoodStreak + 1]
      [] grade = Easy -> [c EXCEPT !.sessionConfident = TRUE]

\* a streak test that asks for three Good grades
ApplyDue_StreakOfThree(c, t, interval) ==
    LET d == [c EXCEPT !.sessionDueTime = t + interval, !.lastShownAt = t]
    IN IF d.sessionGoodStreak >= 3 THEN [d EXCEPT !.sessionConfident = TRUE] ELSE d

\* card.sessionDueTime = now + interval; card.lastShownAt = now; streak test
ApplyDue(c, t, interval) ==
    LET d == [c EXCEPT !.sessionDueTime = t + interval, !.lastShownAt = t]
    IN IF d.sessionGoodStreak >= 2 THEN [d EXCEPT !.sessionConfident = TRUE] ELSE d

GradeInput(grade) ==
    /\ ~loading
    /\ isFlipped
    /\ currentCardId # NullId
    /\ IndexOfId(cards, currentCardId) # 0
    /\ LET idx == IndexOfId(cards, currentCardId)
           switched == ApplySwitch(cards[idx], grade)
           inv == [cardId |-> currentCardId, idx |-> idx, grade |-> grade, now |-> now,
                   interval |-> IntervalOf(grade), pc |-> "start", read |-> Undef,
                   readCard |-> <<>>,
                   before |-> [card |-> cards[idx], since |-> cardsSinceReinforcement,
                               current |-> currentCardId]]
       IN IF grade \in {Again, Hard}
          THEN /\ cards' = [cards EXCEPT ![idx] = switched]
               /\ inflight' = Append(inflight, [inv EXCEPT !.pc = "get"])
          ELSE /\ cards' = [cards EXCEPT ![idx] = ApplyDue(switched, now, IntervalOf(grade))]
               /\ inflight' = Append(inflight, [inv EXCEPT !.pc = "log"])
    /\ inputs' = [inputs EXCEPT ![grade] = @ + 1]
    /\ UNCHANGED <<store, persisted, logs, now, loading, currentCardId, isFlipped, lastShownId,
                   cardsSinceReinforcement, pickInfo, srsVars, dueVars, pickVars>>

\* the fields of the SessionCard that are not fields of a Card
SessionFields ==
    {"sessionState", "sessionDueTime", "sessionConfident", "sessionGoodStreak", "lastShownAt"}

\* a put of the read card with the session card's fields spread over it
PutCard_SessionCard(read, sessionCard) ==
    [f \in DOMAIN read \cup SessionFields |->
        IF f \in SessionFields THEN sessionCard[f] ELSE read[f]]

\* db.put('cards', card): the card is the object db.get returned, with its
\* difficultyScore raised; its other fields are written back as read
PutCard(read, sessionCard) == read

RemoveAt(seq, i) == SubSeq(seq, 1, i - 1) \o SubSeq(seq, i + 1, Len(seq))

\* updateCardDifficulty: const card = await db.get('cards', cardId)
DifficultyGet(i) ==
    /\ i \in 1..Len(inflight)
    /\ inflight[i].pc = "get"
    /\ inflight' = [inflight EXCEPT ![i].read = store[inflight[i].cardId],
                                    ![i].readCard = persisted[inflight[i].cardId],
                                    ![i].pc = "put"]
    /\ UNCHANGED <<store, persisted, logs, now, loading, cards, currentCardId, isFlipped, lastShownId,
                   cardsSinceReinforcement, inputs, pickInfo, srsVars, dueVars, pickVars>>

\* updateCardDifficulty: await db.put('cards', card); handleGrade resumes up to logReview
DifficultyPut(i) ==
    /\ i \in 1..Len(inflight)
    /\ inflight[i].pc = "put"
    /\ LET inv == inflight[i]
       IN /\ store' = [store EXCEPT ![inv.cardId] = ScoreOrZero(inv.read) + 1]
          /\ persisted' = [persisted EXCEPT ![inv.cardId] = PutCard(inv.readCard, cards[inv.idx])]
          /\ cards' = [cards EXCEPT ![inv.idx] = ApplyDue(cards[inv.idx], inv.now, inv.interval)]
    /\ inflight' = [inflight EXCEPT ![i].pc = "log"]
    /\ UNCHANGED <<logs, now, loading, currentCardId, isFlipped, lastShownId,
                   cardsSinceReinforcement, inputs, pickInfo, srsVars, dueVars, pickVars>>

\* the logs store is keyed by studiedAt: add rejects a key that is present
KeyPresent(t) == \E e \in logs : e.studiedAt = t

\* a promotion that moves only the graded card
Promote_OnlyGraded(allCards, idx) ==
    IF allCards[idx].sessionState = "active" /\ allCards[idx].sessionConfident
    THEN LET confident == {i \in 1..Len(allCards) :
                              allCards[i].sessionState = "active" /\ allCards[i].sessionConfident}
         IN IF Cardinality(confident) > CONFIDENT_THRESHOLD
            THEN fillActiveBatch([allCards EXCEPT ![idx].sessionState = "easyPool"])
            ELSE allCards
    ELSE allCards

\* a promotion that leaves the freed slots of the batch empty
Promote_NoRefill(allCards, idx) ==
    IF allCards[idx].sessionState = "active" /\ allCards[idx].sessionConfident
    THEN LET confident == {i \in 1..Len(allCards) :
                              allCards[i].sessionState = "active" /\ allCards[i].sessionConfident}
         IN IF Cardinality(confident) > CONFIDENT_THRESHOLD
            THEN [i \in 1..Len(allCards) |->
                     IF i \in confident THEN [allCards[i] EXCEPT !.sessionState = "easyPool"]
                     ELSE allCards[i]]
            ELSE allCards
    ELSE allCards

\* a promotion that fires as soon as five active cards are confident
Promote_AtFive(allCards, idx) ==
    IF allCards[idx].sessionState = "active" /\ allCards[idx].sessionConfident
    THEN LET confident == {i \in 1..Len(allCards) :
                              allCards[i].sessionState = "active" /\ allCards[i].sessionConfident}
         IN IF Cardinality(confident) >= CONFIDENT_THRESHOLD
            THEN fillActiveBatch([i \in 1..Len(allCards) |->
                     IF i \in confident THEN [allCards[i] EXCEPT !.sessionState = "easyPool"]
                     ELSE allCards[i]])
            ELSE allCards
    ELSE allCards

\* the batch promotion after a grade of cards[idx]
Promote(allCards, idx) ==
    IF allCards[idx].sessionState = "active" /\ allCards[idx].sessionConfident
    THEN LET confident == {i \in 1..Len(allCards) :
                              allCards[i].sessionState = "active" /\ allCards[i].sessionConfident}
         IN IF Cardinality(confident) > CONFIDENT_THRESHOLD
            THEN fillActiveBatch([i \in 1..Len(allCards) |->
                     IF i \in confident THEN [allCards[i] EXCEPT !.sessionState = "easyPool"]
                     ELSE allCards[i]])
            ELSE allCards
    ELSE allCards

\* logReview writing with put: an entry under the same key is replaced
LogReview_Put(i, r) ==
    /\ i \in 1..Len(inflight)
    /\ inflight[i].pc = "log"
    /\ LET inv == inflight[i]
           promoted == Promote(cards, inv.idx)
           pick == pickNextCard(promoted, now, r, currentCardId, lastShownId,
                                cardsSinceReinforcement + 1, isFlipped)
       IN /\ logs' = {e \in logs : e.studiedAt # inv.now}
                        \cup {[cardId |-> inv.cardId, grade |-> inv.grade, studiedAt |-> inv.now]}
          /\ cards' = promoted
          /\ currentCardId' = pick.currentCardId
          /\ lastShownId' = pick.lastShownId
          /\ cardsSinceReinforcement' = pick.since
          /\ isFlipped' = pick.isFlipped
          /\ pickInfo' = [branch |-> pick.branch, prev |-> currentCardId, afterGrade |-> TRUE]
    /\ inflight' = RemoveAt(inflight, i)
    /\ UNCHANGED <<store, persisted, now, loading, inputs, srsVars, dueVars, pickVars>>

\* logReview resolves; handleGrade runs to its end
LogReview(i, r) ==
    /\ i \in 1..Len(inflight)
    /\ inflight[i].pc = "log"
    /\ ~KeyPresent(inflight[i].now)
    /\ LET inv == inflight[i]
           promoted == Promote(cards, inv.idx)
           pick == pickNextCard(promoted, now, r, currentCardId, lastShownId,
                                cardsSinceReinforcement + 1, isFlipped)
       IN /\ logs' = logs \cup {[cardId |-> inv.cardId, grade |-> inv.grade, studiedAt |-> inv.now]}
          /\ cards' = promoted
          /\ currentCardId' = pick.currentCardId
          /\ lastShownId' = pick.lastShownId
          /\ cardsSinceReinforcement' = pick.since
          /\ isFlipped' = pick.isFlipped
          /\ pickInfo' = [branch |-> pick.branch, prev |-> currentCardId, afterGrade |-> TRUE]
    /\ inflight' = RemoveAt(inflight, i)
    /\ UNCHANGED <<store, persisted, now, loading, inputs, srsVars, dueVars, pickVars>>

\* a store call of the invocation rejects: handleGrade ends there
StoreFails(i) ==
    /\ i \in 1..Len(inflight)
    /\ inflight' = RemoveAt(inflight, i)
    /\ UNCHANGED <<store, persisted, logs, now, loading, cards, currentCardId, isFlipped, lastShownId,
                   cardsSinceReinforcement, inputs, pickInfo, srsVars, dueVars, pickVars>>

\* handleGrade with no current card: if (!currentCardId) return; if (!card) return
GradeIgnored(grade) ==
    /\ currentCardId = NullId \/ IndexOfId(cards, currentCardId) = 0
    /\ inputs' = [inputs EXCEPT ![grade] = @ + 1]
    /\ UNCHANGED <<store, persisted, logs, now, loading, cards, currentCardId, isFlipped, lastShownId,
                   cardsSinceReinforcement, inflight, pickInfo, srsVars, dueVars, pickVars>>

\* time passes
Tick ==
    /\ now' = now + ClockStep
    /\ UNCHANGED <<store, persisted, logs, loading, cards, currentCardId, isFlipped, lastShownId,
                   cardsSinceReinforcement, inflight, inputs, pickInfo, srsVars, dueVars, pickVars>>

InputCount == inputs[Again] + inputs[Hard] + inputs[Good] + inputs[Easy]

(***************************************************************************)
(* Spec: small decks; grade inputs may overlap, store calls may reject,    *)
(* the clock advances at any moment.                                       *)
(***************************************************************************)
Next ==
    \/ \E r \in Rand : initializeSession(r)
    \/ ShowAnswer
    \/ \E g \in Grades : InputCount < MaxInputs /\ Len(inflight) < MaxInFlight /\ GradeInput(g)
    \/ \E g \in Grades : InputCount < MaxInputs /\ GradeIgnored(g)
    \/ \E i \in 1..MaxInFlight : DifficultyGet(i)
    \/ \E i \in 1..MaxInFlight : DifficultyPut(i)
    \/ \E i \in 1..MaxInFlight, r \in Rand : LogReview(i, r)
    \/ \E i \in 1..MaxInFlight : StoreFails(i)
    \/ now < MaxTicks * ClockStep /\ Tick

Spec == Init /\ [][Next]_vars

(***************************************************************************)
(* SpecBatch: larger decks; the operator grades after the previous grade   *)
(* has been applied, at a later clock value, and the store accepts every   *)
(* call.                                                                   *)
(***************************************************************************)
NonEasyCount == inputs[Again] + inputs[Hard] + inputs[Good]

NextBatch ==
    \/ \E r \in Rand : initializeSession(r)
    \/ ShowAnswer
    \/ \E g \in Grades :
          /\ InputCount < MaxGrades
          /\ g # Easy => NonEasyCount < MaxNonEasy
          /\ inflight = <<>>
          /\ ~KeyPresent(now)
          /\ GradeInput(g)
    \/ DifficultyGet(1)
    \/ DifficultyPut(1)
    \/ \E r \in Rand : LogReview(1, r)
    \/ KeyPresent(now) /\ inflight = <<>> /\ ~isFlipped /\ Tick

SpecBatch == InitBatch /\ [][NextBatch]_vars

(***************************************************************************)
(* SpecSix: the session of SpecBatch over a deck of six cards, all of      *)
(* which are active from the start and can be promoted together.           *)
(***************************************************************************)
InitSix == Mounted(LargeDeck(6)) /\ SrsIdle /\ DueIdle /\ PickIdle

SpecSix == InitSix /\ [][NextBatch]_vars

(***************************************************************************)
(* SpecOverlap: the session over a deck of seven cards in which the        *)
(* operator grades Again at most MaxNonEasy times, before any Easy grade,  *)
(* and Easy from then on, and may grade while the difficulty update of an  *)
(* earlier grade is still waiting for the store; each grade has a clock    *)
(* value of its own and the store accepts every call.                      *)
(***************************************************************************)
InitOverlap == Mounted(LargeDeck(7)) /\ SrsIdle /\ DueIdle /\ PickIdle

\* a grade was given at the present clock value
StampUsed == KeyPresent(now) \/ \E i \in 1..Len(inflight) : inflight[i].now = now

NextOverlap ==
    \/ \E r \in Rand : initializeSession(r)
    \/ ShowAnswer
    \/ \E g \in {Again, Easy} :
          /\ InputCount < MaxOverlapInputs
          /\ g # Easy => (NonEasyCount < MaxNonEasy /\ inputs[Easy] = 0)
          /\ Len(inflight) < MaxInFlight
          /\ \A i \in 1..Len(inflight) : inflight[i].pc \in {"get", "put"}
          /\ ~StampUsed
          /\ GradeInput(g)
    \/ \E i \in 1..MaxInFlight : DifficultyGet(i)
    \/ \E i \in 1..MaxInFlight : DifficultyPut(i)
    \/ \E i \in 1..MaxInFlight, r \in Rand : LogReview(i, r)
    \/ StampUsed /\ Tick

SpecOverlap == InitOverlap /\ [][NextOverlap]_vars

(***************************************************************************)
(* SpecFew: the session of SpecBatch over a deck of five cards, one fewer  *)
(* than a promotion needs, and over a deck of seven, which a promotion     *)
(* leaves with one active card.                                            *)
(***************************************************************************)
FewDecks == {LargeDeck(5), LargeDeck(7)}

InitFew == (\E deck \in FewDecks : Mounted(deck)) /\ SrsIdle /\ DueIdle /\ PickIdle

SpecFew == InitFew /\ [][NextBatch]_vars

(***************************************************************************)
(* SpecRestart: the session of SpecBatch over a deck of four cards with    *)
(* the Restart button, pressed while a card is shown and no grade is       *)
(* waiting for the store.  The button calls initializeSession: it sets     *)
(* loading, and the rest of initializeSession runs when getCardsForDeck    *)
(* resolves.                                                               *)
(***************************************************************************)
Restart ==
    /\ ~loading
    /\ IndexOfId(cards, currentCardId) # 0
    /\ inflight = <<>>
    /\ loading' = TRUE
    /\ UNCHANGED <<store, persisted, logs, now, cards, currentCardId, isFlipped, lastShownId,
                   cardsSinceReinforcement, inflight, inputs, pickInfo, srsVars, dueVars, pickVars>>

InitRestart == Mounted(LargeDeck(4)) /\ SrsIdle /\ DueIdle /\ PickIdle

NextRestart ==
    \/ \E r \in Rand : initializeSession(r)
    \/ ShowAnswer
    \/ \E g \in Grades :
          /\ InputCount < MaxRestartGrades
          /\ inflight = <<>>
          /\ ~KeyPresent(now)
          /\ GradeInput(g)
    \/ DifficultyGet(1)
    \/ DifficultyPut(1)
    \/ \E r \in Rand : LogReview(1, r)
    \/ KeyPresent(now) /\ inflight = <<>> /\ ~isFlipped /\ Tick
    \/ Restart

SpecRestart == InitRestart /\ [][NextRestart]_vars

(***************************************************************************)
(* SpecSrs: calculateNextReview applied to one stored card, grade after    *)
(* grade, each update merged into the card.                                *)
(***************************************************************************)
SrsStates == {"new", "learning", "review", "relearning"}
SrsEases == {<<13, 10>>, <<7, 5>>, <<5, 2>>}
SrsIntervals == {RInt(0), RInt(1), RInt(2)}
SrsCounts == {<<0, 0>>, <<3, 2>>}
SrsSteps == {<<1, 10>>, <<>>, <<5>>}

SrsCards ==
    {[state |-> st, intervalDays |-> iv, easeFactor |-> ef,
      repetitions |-> rl[1], lapses |-> rl[2], dueDate |-> RInt(0)] :
        st \in SrsStates, iv \in SrsIntervals, ef \in SrsEases, rl \in SrsCounts}

\* the session's variables while the scheduler is exercised alone
SessionIdle == Mounted(<<>>)

InitSrs ==
    /\ SessionIdle
    /\ settings \in {[DEFAULT_SETTINGS EXCEPT !.learningSteps = ls] : ls \in SrsSteps}
    /\ card \in SrsCards
    /\ srsNow = 0
    /\ srsCount = 0
    /\ srsLast = NoSrs
    /\ srsDesc = NoDesc
    /\ DueIdle
    /\ PickIdle

SrsGrade(grade) ==
    /\ srsCount < MaxSrsGrades
    /\ LET updates == calculateNextReview(card, grade, settings, srsNow)
           after == CardAfterCall(card, grade, settings)
       IN /\ card' = Merge(after, updates)
          /\ srsLast' = [grade |-> grade, before |-> card, now |-> srsNow, updates |-> updates,
                         after |-> after]
    /\ srsCount' = srsCount + 1
    /\ UNCHANGED <<settings, srsNow, srsDesc, sessionVars, dueVars, pickVars>>

SrsTick ==
    /\ srsNow < MaxSrsDays
    /\ srsNow' = srsNow + 1
    /\ UNCHANGED <<settings, card, srsCount, srsLast, srsDesc, sessionVars, dueVars, pickVars>>

NextSrs ==
    \/ \E g \in Grades : SrsGrade(g)
    \/ SrsTick

SpecSrs == InitSrs /\ [][NextSrs]_vars

(***************************************************************************)
(* SpecFallback: the scheduler of SpecSrs under settings whose             *)
(* learningSteps has no usable first entry: the empty list, which the      *)
(* settings form stores for an empty field, and lists that start with 0,   *)
(* which the form filters out but calculateNextReview accepts.             *)
(***************************************************************************)
FallbackSteps == {<<>>, <<0>>, <<0, 10>>}

InitFallback ==
    /\ SessionIdle
    /\ settings \in {[DEFAULT_SETTINGS EXCEPT !.learningSteps = ls] : ls \in FallbackSteps}
    /\ card \in SrsCards
    /\ srsNow = 0
    /\ srsCount = 0
    /\ srsLast = NoSrs
    /\ srsDesc = NoDesc
    /\ DueIdle
    /\ PickIdle

SpecFallback == InitFallback /\ [][NextSrs]_vars

(***************************************************************************)
(* SpecNew: the scheduler of SpecSrs applied to a card as the store        *)
(* creates it (new, no repetitions, interval 0, ease 2.5), under the       *)
(* default settings.                                                       *)
(***************************************************************************)
InitNew ==
    /\ SessionIdle
    /\ settings = DEFAULT_SETTINGS
    /\ card = NewCard
    /\ srsNow = 0
    /\ srsCount = 0
    /\ srsLast = NoSrs
    /\ srsDesc = NoDesc
    /\ DueIdle
    /\ PickIdle

NewGrade(grade) ==
    /\ srsCount < MaxNewGrades
    /\ LET updates == calculateNextReview(card, grade, settings, srsNow)
           after == CardAfterCall(card, grade, settings)
       IN /\ card' = Merge(after, updates)
          /\ srsLast' = [grade |-> grade, before |-> card, now |-> srsNow, updates |-> updates,
                         after |-> after]
    /\ srsCount' = srsCount + 1
    /\ UNCHANGED <<settings, srsNow, srsDesc, sessionVars, dueVars, pickVars>>

NextNew ==
    \/ \E g \in Grades : NewGrade(g)
    \/ SrsTick

SpecNew == InitNew /\ [][NextNew]_vars

(***************************************************************************)
(* SpecDescribe: getSchedulingDescription called for the grade buttons of  *)
(* one stored card; between the scheduler's reading of the clock and the   *)
(* description's own, no time or half a minute passes.                     *)
(***************************************************************************)
DescribeSteps == {<<1, 10>>, <<>>, <<5>>, <<60>>}
DescribeDelays == {RInt(0), <<1, 2880>>}

InitDescribe ==
    /\ SessionIdle
    /\ settings \in {[DEFAULT_SETTINGS EXCEPT !.learningSteps = ls] : ls \in DescribeSteps}
    /\ card \in SrsCards
    /\ srsNow = 0
    /\ srsCount = 0
    /\ srsLast = NoSrs
    /\ srsDesc = NoDesc
    /\ DueIdle
    /\ PickIdle

Describe(grade, delay) ==
    /\ LET t2 == RAdd(RInt(srsNow), delay)
       IN srsDesc' = [grade |-> grade, card |-> card, at |-> t2,
                      out |-> getSchedulingDescription(card, grade, settings, srsNow, t2)]
    /\ card' = CardAfterCall(card, grade, settings)
    /\ UNCHANGED <<settings, srsNow, srsCount, srsLast, sessionVars, dueVars, pickVars>>

NextDescribe ==
    \/ \E g \in Grades, d \in DescribeDelays : Describe(g, d)
    \/ SrsTick

SpecDescribe == InitDescribe /\ [][NextDescribe]_vars

(***************************************************************************)
(* SpecDue: getDueCards of the db service, called on a cards store that    *)
(* holds cards of two decks.  The clock is the scheduler's, in days.       *)
(***************************************************************************)
\* getDueCards with a strict comparison
getDueCards_Strict(deckId, t) ==
    LET allDeckCards == Ascending({i \in 1..Len(cardStore) : cardStore[i].deckId = deckId})
        kept == {k \in 1..Len(allDeckCards) :
                    ~RLeq(RInt(t), cardStore[allDeckCards[k]].dueDate)}
    IN [k \in 1..Cardinality(kept) |-> allDeckCards[Ascending(kept)[k]]]

\* getDueCards(deckId) at clock value t: the ids of the cards returned, in order
getDueCards(deckId, t) ==
    LET allDeckCards == Ascending({i \in 1..Len(cardStore) : cardStore[i].deckId = deckId})
        kept == {k \in 1..Len(allDeckCards) :
                    RLeq(cardStore[allDeckCards[k]].dueDate, RInt(t))}
    IN [k \in 1..Cardinality(kept) |-> allDeckCards[Ascending(kept)[k]]]

DeckIds == {1, 2}
DueDates == {RInt(0), <<1, 2>>, RInt(1), RInt(2)}
StoredCards == {[deckId |-> d, dueDate |-> dd] : d \in DeckIds, dd \in DueDates}
CardStores == UNION {[1..n -> StoredCards] : n \in 0..MaxDueCards}

InitDue ==
    /\ SessionIdle
    /\ SrsIdle
    /\ PickIdle
    /\ cardStore \in CardStores
    /\ dueResult = NoDue
    /\ QueueIdle

GetDueCards(deckId) ==
    /\ dueResult' = [deckId |-> deckId, now |-> srsNow, ids |-> getDueCards(deckId, srsNow)]
    /\ UNCHANGED <<cardStore, queueVars, pickVars, sessionVars, srsVars>>

NextDue ==
    \/ \E d \in DeckIds : GetDueCards(d)
    \/ SrsTick

SpecDue == InitDue /\ [][NextDue]_vars

(***************************************************************************)
(* SpecLoad: loadCards of the due-card session, run on a cards store that  *)
(* holds cards of two decks in every scheduler state, under the default    *)
(* daily limits and under limits saved from the settings form, which       *)
(* stores Number(value) of a number input as typed.                        *)
(***************************************************************************)
\* Array.prototype.slice(0, end): a negative end counts from the end of the array
Slice(seq, end) ==
    LET last == IF end < 0 THEN Len(seq) + end ELSE Min(end, Len(seq))
    IN SubSeq(seq, 1, IF last < 0 THEN 0 ELSE last)

\* allDueCards.filter(c => c.state === st)
InCardState(ids, st) == SelectSeq(ids, LAMBDA i : cardStore[i].state = st)

\* if (arr.length > limit) arr = arr.slice(0, limit)
Limited(arr, limit) == IF Len(arr) > limit THEN Slice(arr, limit) ELSE arr

LoadDueDates == {RInt(0), RInt(1)}
LoadCards ==
    {[deckId |-> d, dueDate |-> dd, state |-> st] :
        d \in DeckIds, dd \in LoadDueDates, st \in SrsStates}
LoadStores == UNION {[1..n -> LoadCards] : n \in 0..MaxDueCards}
LoadLimits == {<<20, 100>>, <<1, 2>>, <<2, 1>>, <<0, 0>>, <<-1, 1>>}

InitLoad ==
    /\ SessionIdle
    /\ PickIdle
    /\ settings \in {[DEFAULT_SETTINGS EXCEPT !.newCardsPerDay = l[1], !.reviewsPerDay = l[2]] :
                        l \in LoadLimits}
    /\ card = NewCard
    /\ srsNow = 0
    /\ srsCount = 0
    /\ srsLast = NoSrs
    /\ srsDesc = NoDesc
    /\ cardStore \in LoadStores
    /\ dueResult = NoDue
    /\ QueueIdle

\* the mount effect of the due-card session for deck deckId
loadCards(deckId) ==
    /\ LET allDueCards == getDueCards(deckId, srsNow)
           newCards == Limited(InCardState(allDueCards, "new"), settings.newCardsPerDay)
           lrnCards == InCardState(allDueCards, "learning")
           revCards == Limited(InCardState(allDueCards, "review"), settings.reviewsPerDay)
           sortedQueue == lrnCards \o revCards \o newCards
       IN /\ dueResult' = [deckId |-> deckId, now |-> srsNow, ids |-> allDueCards]
          /\ stats' = [new |-> Len(newCards), learning |-> Len(lrnCards), review |-> Len(revCards)]
          /\ queue' = sortedQueue
          /\ currentCard' = IF Len(sortedQueue) > 0 THEN sortedQueue[1] ELSE currentCard
    /\ copies' = cardStore
    /\ dueLoading' = FALSE
    /\ UNCHANGED <<cardStore, gradeVars, pickVars, sessionVars, srsVars>>

NextLoad ==
    \/ \E d \in DeckIds : loadCards(d)
    \/ SrsTick

SpecLoad == InitLoad /\ [][NextLoad]_vars

(***************************************************************************)
(* SpecQueue: the due-card session from mount on, over a cards store of    *)
(* one deck whose cards are all due: loadCards, Show Answer and            *)
(* handleGrade.  handleGrade is split at its two awaits; the values it     *)
(* read at its start (currentCard, queue, the objects in the queue) stay   *)
(* with the invocation.  Nothing disables the grade keys while an          *)
(* invocation waits for the store, so a second one may start on the same   *)
(* render.  The store runs its transactions in the order they were         *)
(* created, accepts every call and answers before the clock advances.     *)
(* The clock is the scheduler's, in days.                                  *)
(***************************************************************************)
\* 20 * 60 * 1000 ms, in days
TWENTY_MINUTES == <<1, 72>>

\* Math.floor(Math.random() * 3)
InsertDraws == {0, 1, 2}

\* cards of the store that are due at clock value 0: as created, after a first
\* Again, and after graduation
QueueCards ==
    {[deckId |-> 1, dueDate |-> RInt(0), state |-> "new", intervalDays |-> RInt(0),
      easeFactor |-> <<5, 2>>, repetitions |-> 0, lapses |-> 0],
     [deckId |-> 1, dueDate |-> RInt(0), state |-> "learning", intervalDays |-> RInt(0),
      easeFactor |-> <<23, 10>>, repetitions |-> 0, lapses |-> 1],
     [deckId |-> 1, dueDate |-> RInt(0), state |-> "review", intervalDays |-> RInt(1),
      easeFactor |-> <<5, 2>>, repetitions |-> 1, lapses |-> 0]}

QueueCardOf(i) == CHOOSE c \in QueueCards : c.lapses = (IF i % 3 = 1 THEN 1 ELSE 0) /\
                                            c.repetitions = (IF i % 3 = 2 THEN 1 ELSE 0)

\* the stores considered: one or two cards of any kind, and seven cards
QueueStores ==
    UNION {[1..n -> QueueCards] : n \in 1..MaxQueueCards} \cup {[i \in 1..7 |-> QueueCardOf(i)]}

QueueSteps == {<<1, 10>>, <<30>>}

InitQueue ==
    /\ SessionIdle
    /\ PickIdle
    /\ settings \in {[DEFAULT_SETTINGS EXCEPT !.learningSteps = ls] : ls \in QueueSteps}
    /\ card = NewCard
    /\ srsNow = 0
    /\ srsCount = 0
    /\ srsLast = NoSrs
    /\ srsDesc = NoDesc
    /\ cardStore \in QueueStores
    /\ dueResult = NoDue
    /\ QueueIdle

\* the card or the keyboard handler showing the answer
DueShowAnswer ==
    /\ ~dueLoading
    /\ currentCard # NullId
    /\ ~dueFlipped
    /\ dueFlipped' = TRUE
    /\ UNCHANGED <<cardStore, dueResult, queue, currentCard, stats, dueLoading, copies, grading,
                   dueLog, pickVars, sessionVars, srsVars>>

\* handleGrade up to its first await
DueGradeInput(grade) ==
    /\ ~dueLoading
    /\ dueFlipped
    /\ currentCard # NullId
    /\ LET before == copies[currentCard]
           updates == calculateNextReview(before, grade, settings, srsNow)
           updatedCard == Merge(before, updates)
       IN grading' = Append(grading,
                        [cardId |-> currentCard, grade |-> grade, before |-> before,
                         updatedCard |-> updatedCard, queue |-> queue, copies |-> copies,
                         studiedAt |-> Undef, pc |-> "updateCard"])
    /\ UNCHANGED <<cardStore, dueResult, queue, currentCard, stats, dueLoading, copies, dueFlipped,
                   dueLog, pickVars, sessionVars, srsVars>>

\* updateCard resolves: the card is in the store and logReview is called
DueUpdateCard(i) ==
    /\ i \in 1..Len(grading)
    /\ grading[i].pc = "updateCard"
    /\ \A j \in 1..(i - 1) : grading[j].pc # "updateCard"
    /\ cardStore' = [cardStore EXCEPT ![grading[i].cardId] = grading[i].updatedCard]
    /\ grading' = [grading EXCEPT ![i].pc = "logReview", ![i].studiedAt = srsNow]
    /\ UNCHANGED <<dueResult, queue, currentCard, stats, dueLoading, copies, dueFlipped,
                   dueLog, pickVars, sessionVars, srsVars>>

\* newQueue.splice(insertIndex, 0, x), insertIndex counted from 0
InsertAt(seq, insertIndex, x) ==
    SubSeq(seq, 1, insertIndex) \o <<x>> \o SubSeq(seq, insertIndex + 1, Len(seq))

\* the first setStats of handleGrade
StatsAfterGrade(s, state) ==
    IF state = "new" THEN [s EXCEPT !.new = Max(0, s.new - 1)]
    ELSE IF state = "review" THEN [s EXCEPT !.review = Max(0, s.review - 1)]
    ELSE [s EXCEPT !.learning = Max(0, s.learning - 1)]

\* updatedCard.dueDate <= now + 20 minutes
IsDueSoon(c, t) == RLeq(c.dueDate, RAdd(RInt(t), TWENTY_MINUTES))

\* logReview resolves and handleGrade runs to its end; draw is
\* Math.floor(Math.random() * 3)
DueLogReview(draw) ==
    /\ grading # <<>>
    /\ grading[1].pc = "logReview"
    /\ LET inv == grading[1]
           sliced == IF inv.queue = <<>> THEN <<>> ELSE Tail(inv.queue)
           isDueSoon == IsDueSoon(inv.updatedCard, srsNow)
           insertIndex == Min(Len(sliced), 3 + draw)
           newQueue == IF isDueSoon THEN InsertAt(sliced, insertIndex, inv.cardId) ELSE sliced
           s == StatsAfterGrade(stats, inv.before.state)
       IN /\ dueLog' = Append(dueLog,
                          [cardId |-> inv.cardId, grade |-> inv.grade,
                           studiedAt |-> inv.studiedAt,
                           previousInterval |-> inv.before.intervalDays,
                           newInterval |-> inv.updatedCard.intervalDays])
          /\ stats' = IF isDueSoon THEN [s EXCEPT !.learning = @ + 1] ELSE s
          /\ queue' = newQueue
          /\ copies' = IF isDueSoon THEN [inv.copies EXCEPT ![inv.cardId] = inv.updatedCard]
                       ELSE inv.copies
          /\ currentCard' = IF Len(newQueue) > 0 THEN newQueue[1] ELSE NullId
    /\ dueFlipped' = FALSE
    /\ grading' = Tail(grading)
    /\ UNCHANGED <<cardStore, dueResult, dueLoading, pickVars, sessionVars, srsVars>>

NextQueue ==
    \/ dueLoading /\ loadCards(1)
    \/ DueShowAnswer
    \/ \E g \in Grades :
          /\ Len(dueLog) + Len(grading) < MaxQueueGrades
          /\ Len(grading) < MaxInFlight
          /\ DueGradeInput(g)
    \/ \E i \in 1..MaxInFlight : DueUpdateCard(i)
    \/ \E draw \in InsertDraws : DueLogReview(draw)
    \/ grading = <<>> /\ SrsTick

SpecQueue == InitQueue /\ [][NextQueue]_vars

\* the same session with one handleGrade at a time
NextQueueInTurn ==
    \/ dueLoading /\ loadCards(1)
    \/ DueShowAnswer
    \/ \E g \in Grades :
          /\ Len(dueLog) + Len(grading) < MaxQueueGrades
          /\ grading = <<>>
          /\ DueGradeInput(g)
    \/ DueUpdateCard(1)
    \/ \E draw \in InsertDraws : DueLogReview(draw)
    \/ grading = <<>> /\ SrsTick

SpecQueueInTurn == InitQueue /\ [][NextQueueInTurn]_vars

(***************************************************************************)
(* SpecPick: the weighted selection of the reinforcement pick, applied to  *)
(* an easy pool given by its cards' difficulty scores, with finer draws.   *)
(***************************************************************************)
PoolScores == {Undef, 0, 1, 3}
Pools == UNION {[1..n -> PoolScores] : n \in 1..MaxPool}

InitPick ==
    /\ SessionIdle
    /\ SrsIdle
    /\ DueIdle
    /\ poolPick \in {[NoPoolPick EXCEPT !.pool = sc] : sc \in Pools}
    /\ pickCall = NoCall

\* the reinforcement branch up to the selection, with Math.random() = k/PickDenom
ReinforcementDraw(k) ==
    /\ LET easyPool == [i \in 1..Len(poolPick.pool) |-> [difficultyScore |-> poolPick.pool[i]]]
           order == [i \in 1..Len(easyPool) |-> i]
           totalWeight == SumWeights(easyPool, order, 1)
       IN poolPick' = [poolPick EXCEPT !.draw = k,
                          !.index = WeightedFrom(easyPool, order, 1, k * totalWeight, PickDenom)]
    /\ UNCHANGED <<dueVars, pickCall, sessionVars, srsVars>>

NextPick == \E k \in 0..(PickDenom - 1) : ReinforcementDraw(k)

SpecPick == InitPick /\ [][NextPick]_vars

(***************************************************************************)
(* SpecSelect: pickNextCard applied to the card array of a session late in *)
(* its run: no card unseen, the six cards of a promotion in the easy pool  *)
(* (or no promotion yet), and up to MaxActive active cards, each due or    *)
(* just graded Again.                                                      *)
(***************************************************************************)
SelectNow == 10 * ClockStep

PoolCard(i) ==
    [id |-> i, difficultyScore |-> LargeDeck(6)[i],
     sessionState |-> "easyPool", sessionDueTime |-> INTERVALS_EASY, sessionConfident |-> TRUE,
     sessionGoodStreak |-> 0, lastShownAt |-> 0]

ActiveCard(i, isDue) ==
    [id |-> i, difficultyScore |-> IF isDue THEN Undef ELSE 1,
     sessionState |-> "active",
     sessionDueTime |-> IF isDue THEN 0 ELSE SelectNow + INTERVALS_AGAIN,
     sessionConfident |-> FALSE, sessionGoodStreak |-> 0,
     lastShownAt |-> IF isDue THEN 0 ELSE SelectNow]

SelectArrays ==
    UNION {UNION {{[i \in 1..(p + k) |->
                       IF i <= p THEN PoolCard(i) ELSE ActiveCard(i, d[i - p])] :
                   d \in [1..k -> BOOLEAN]} :
                  k \in 0..MaxActive} :
           p \in {0, 6}}

SelectCalls ==
    {[allCards |-> a, lastShown |-> l, since |-> n, out |-> [branch |-> "pending"]] :
        a \in SelectArrays, l \in 0..(6 + MaxActive), n \in 1..REINFORCEMENT_GAP}

InitSelect ==
    /\ SessionIdle
    /\ SrsIdle
    /\ DueIdle
    /\ poolPick = NoPoolPick
    /\ pickCall \in {c \in SelectCalls :
                        IF c.allCards = <<>> THEN c.lastShown = NullId
                        ELSE c.lastShown \in 1..Len(c.allCards)}

\* pickNextCard(cards) at the end of a grade, with Math.random() = r/RandDenom
SelectCard(r) ==
    /\ pickCall' = [pickCall EXCEPT !.out =
                       pickNextCard(pickCall.allCards, SelectNow, r, pickCall.lastShown,
                                    pickCall.lastShown, pickCall.since, TRUE)]
    /\ UNCHANGED <<poolPick, sessionVars, srsVars, dueVars>>

NextSelect == \E r \in Rand : SelectCard(r)

SpecSelect == InitSelect /\ [][NextSelect]_vars

(***************************************************************************)
(* Properties.                                                             *)
(***************************************************************************)
ActiveCount == Len(ActiveIdx(cards))
UnseenCount == Len(UnseenIdx(cards))
EasyPoolCount == Len(EasyPoolIdx(cards))

Rank(st) == CASE st = "unseen" -> 0 [] st = "active" -> 1 [] st = "easyPool" -> 2

\* the step in which invocation i of handleGrade completes (its log entry is added)
Completes(i) ==
    /\ i \in 1..Len(inflight)
    /\ inflight' = RemoveAt(inflight, i)
    /\ logs' # logs

\* the step in which invocation i of handleGrade ends at a rejected store call
Rejected(i) ==
    /\ i \in 1..Len(inflight)
    /\ inflight' = RemoveAt(inflight, i)
    /\ logs' = logs

\* C1: when pickNextCard runs at the end of a grade and at least 2 cards are
\* active, the card it selects is not the card that was shown before the pick.
C1_NoImmediateRepeat ==
    (pickInfo.afterGrade /\ ActiveCount >= 2) => currentCardId # pickInfo.prev

\* C2: in every step every card's sessionState stays where it is or moves
\* forward along unseen -> active -> easyPool.
C2_ForwardOnly ==
    [][\A i \in 1..Len(cards) :
          Rank(cards'[i].sessionState) >= Rank(cards[i].sessionState)]_vars

\* C2 witness: a card of the easy pool has been graded Again or Hard (the switch
\* and the due-time update have run) and is still in the easy pool.
C2_Witness ==
    \E i \in 1..Len(inflight) :
        /\ inflight[i].grade \in {Again, Hard}
        /\ inflight[i].pc = "log"
        /\ inflight[i].before.card.sessionState = "easyPool"
        /\ cards[inflight[i].idx].sessionState = "easyPool"
        /\ cards[inflight[i].idx].sessionGoodStreak = 0

\* C3: at most 10 cards are active in every state, and a step that moves a card
\* to the easy pool (a batch promotion) ends with exactly 10 active cards or
\* with no unseen card.
C3_BatchBound ==
    /\ [](ActiveCount <= BATCH_SIZE)
    /\ [][(\E i \in 1..Len(cards) :
              cards[i].sessionState = "active" /\ cards'[i].sessionState = "easyPool")
          => (Len(ActiveIdx(cards')) = BATCH_SIZE \/ Len(UnseenIdx(cards')) = 0)]_vars

\* C3 witness: after a promotion the batch is back at 10 with an unseen card left.
C3_Witness == EasyPoolCount > 0 /\ ActiveCount = BATCH_SIZE /\ UnseenCount > 0

\* C4: when a grade completes, if the graded card is active and confident and
\* more than 5 active cards are confident, every confident active card is in
\* the easy pool afterwards, no other card changes except unseen cards made
\* active, and the batch is refilled (10 active or no unseen left); otherwise
\* no card changes its sessionState.
C4_Effect(idx) ==
    LET confident == {j \in 1..Len(cards) :
                         cards[j].sessionState = "active" /\ cards[j].sessionConfident}
    IN IF /\ cards[idx].sessionState = "active"
          /\ cards[idx].sessionConfident
          /\ Cardinality(confident) > 5
       THEN /\ \A j \in confident : cards'[j].sessionState = "easyPool"
            /\ \A j \in (1..Len(cards)) \ confident :
                  \/ cards'[j].sessionState = cards[j].sessionState
                  \/ cards[j].sessionState = "unseen" /\ cards'[j].sessionState = "active"
            /\ Len(ActiveIdx(cards')) = 10 \/ Len(UnseenIdx(cards')) = 0
       ELSE \A j \in 1..Len(cards) : cards'[j].sessionState = cards[j].sessionState

C4_PromoteAllOrNone ==
    [][\A i \in 1..Len(inflight) : Completes(i) => C4_Effect(inflight[i].idx)]_vars

\* C4 witness: six cards graded Easy in turn, and the sixth grade has moved all
\* six to the easy pool.
C4_Witness ==
    /\ inputs[Easy] = 6
    /\ InputCount = 6
    /\ inflight = <<>>
    /\ EasyPoolCount = 6
    /\ \A i \in 1..Len(cards) :
          cards[i].sessionState = "easyPool" <=> cards[i].sessionConfident

\* C5: after initialization (and before any grade) there is one SessionCard per
\* deck card, each with sessionDueTime 0, sessionConfident false and
\* sessionGoodStreak 0; the first min(10, n) of the array are active, the rest
\* unseen, none in the easy pool.
C5_InitShape ==
    (~loading /\ InputCount = 0) =>
        LET n == Len(store) IN
        /\ Len(cards) = n
        /\ {cards[i].id : i \in 1..n} = 1..n
        /\ \A i \in 1..n :
              /\ cards[i].sessionDueTime = 0
              /\ cards[i].sessionConfident = FALSE
              /\ cards[i].sessionGoodStreak = 0
              /\ cards[i].sessionState = IF i <= Min(10, n) THEN "active" ELSE "unseen"
        /\ ActiveCount = Min(10, n)
        /\ UnseenCount = n - Min(10, n)
        /\ EasyPoolCount = 0

\* C5 witness: the session over 12 cards: 10 active, 2 unseen, 0 easy pool.
C5_Witness ==
    /\ ~loading
    /\ InputCount = 0
    /\ Len(cards) = 12
    /\ ActiveCount = 10
    /\ UnseenCount = 2
    /\ EasyPoolCount = 0

\* C6: when a store call of a grade rejects, the graded card, the
\* since-last-reinforcement counter and the current card are what they were
\* when the grade started.
C6_AllOrNothing ==
    [][\A i \in 1..Len(inflight) :
          Rejected(i) =>
              /\ cards[inflight[i].idx] = inflight[i].before.card
              /\ cardsSinceReinforcement = inflight[i].before.since
              /\ currentCardId = inflight[i].before.current]_vars

\* C7: at most one handleGrade invocation is in progress at any time.
C7_NoConcurrentGrades == Len(inflight) <= 1

\* C8: the card's easeFactor is at least MIN_EASE_FACTOR after any sequence of
\* grades.
C8_EaseFloor == RLeq(MIN_EASE_FACTOR, card.easeFactor)

\* C8 witness: an Again grade on ease 1.4 has been floored at 1.3.
C8_Witness ==
    /\ srsLast.grade = Again
    /\ srsLast.before.easeFactor = <<7, 5>>
    /\ card.easeFactor = MIN_EASE_FACTOR

\* C9: after Again, from any state: state learning, repetitions 0,
\* intervalDays 0, lapses one more than before, dueDate = now + learningSteps[0]
\* minutes (now + 1 minute for learningSteps = [1, 10]).
C9_Again ==
    srsLast.grade = Again =>
        /\ card.state = "learning"
        /\ card.repetitions = 0
        /\ card.intervalDays = RInt(0)
        /\ card.lapses = srsLast.before.lapses + 1
        /\ Len(settings.learningSteps) > 0 =>
              card.dueDate = RAdd(RInt(srsLast.now), <<settings.learningSteps[1], 1440>>)
        /\ settings.learningSteps = <<1, 10>> =>
              card.dueDate = RAdd(RInt(srsLast.now), <<1, 1440>>)

\* C9 witness: a review card with 2 lapses has been graded Again.
C9_Witness ==
    /\ srsLast.grade = Again
    /\ srsLast.before.state = "review"
    /\ srsLast.before.lapses = 2
    /\ card.lapses = 3
    /\ card.state = "learning"

\* C10: after Good or Easy on a new or learning card: state review,
\* intervalDays 1, repetitions 1, dueDate = now + 1 day, easeFactor and lapses
\* as before.
C10_Graduate ==
    (srsLast.grade \in {Good, Easy} /\ srsLast.before.state \in {"new", "learning"}) =>
        /\ card.state = "review"
        /\ card.intervalDays = RInt(1)
        /\ card.repetitions = 1
        /\ card.dueDate = RInt(srsLast.now + 1)
        /\ card.easeFactor = srsLast.before.easeFactor
        /\ card.lapses = srsLast.before.lapses

\* C10 witness: a learning card with 3 repetitions, interval 2 and ease 1.4 has
\* been graded Easy.
C10_Witness ==
    /\ srsLast.grade = Easy
    /\ srsLast.before.state = "learning"
    /\ srsLast.before.repetitions = 3
    /\ srsLast.before.intervalDays = RInt(2)
    /\ srsLast.before.easeFactor = <<7, 5>>
    /\ card.repetitions = 1

\* C11: after Hard, Good or Easy on a review card: state review, repetitions
\* one more, lapses as before, intervalDays = old interval x 1.2 (Hard), x old
\* ease (Good), x old ease x easyBonus (Easy); easeFactor = max(1.3, ease - 0.15)
\* (Hard), unchanged (Good), ease + 0.15 (Easy); dueDate = now + intervalDays
\* days.  Interval 2 with ease 2.5 graded Good gives interval 5 and ease 2.5.
C11_Review ==
    (srsLast.grade \in {Hard, Good, Easy} /\ srsLast.before.state = "review") =>
        LET b == srsLast.before
            g == srsLast.grade
        IN /\ card.state = "review"
           /\ card.repetitions = b.repetitions + 1
           /\ card.lapses = b.lapses
           /\ g = Hard =>
                 /\ card.intervalDays = RMul(b.intervalDays, <<12, 10>>)
                 /\ card.easeFactor =
                       (IF RLeq(<<29, 20>>, b.easeFactor)
                        THEN RSub(b.easeFactor, <<15, 100>>) ELSE <<13, 10>>)
           /\ g = Good =>
                 /\ card.intervalDays = RMul(b.intervalDays, b.easeFactor)
                 /\ card.easeFactor = b.easeFactor
           /\ g = Easy =>
                 /\ card.intervalDays = RMul(b.intervalDays, RMul(b.easeFactor, settings.easyBonus))
                 /\ card.easeFactor = RAdd(b.easeFactor, <<15, 100>>)
           /\ card.dueDate = RAdd(RInt(srsLast.now), card.intervalDays)
           /\ (g = Good /\ b.intervalDays = RInt(2) /\ b.easeFactor = <<5, 2>>) =>
                 (card.intervalDays = RInt(5) /\ card.easeFactor = <<5, 2>>)

\* C11 witness: a review card with interval 2 and ease 2.5 has been graded Good
\* and has interval 5.
C11_Witness ==
    /\ srsLast.grade = Good
    /\ srsLast.before.state = "review"
    /\ srsLast.before.intervalDays = RInt(2)
    /\ srsLast.before.easeFactor = <<5, 2>>
    /\ card.intervalDays = RInt(5)
    /\ card.dueDate = RInt(srsLast.now + 5)

\* the step in which invocation i of handleGrade has its updateCardDifficulty
\* write applied
Writes(i) ==
    /\ i \in 1..Len(inflight)
    /\ Len(inflight') = Len(inflight)
    /\ inflight[i].pc = "put"
    /\ inflight'[i].pc = "log"

\* C12: no step lowers a difficultyScore, in the session copy or in the Card
\* Store; an Again or Hard input raises the session copy of the graded card by
\* exactly 1 and a Good or Easy input leaves it unchanged; the store write of an
\* Again or Hard grade raises the stored score of the graded card by exactly 1,
\* and no other step changes the store.
C12_ScoreRaisedByOne ==
    [][/\ \A id \in DOMAIN store : ScoreOrZero(store'[id]) >= ScoreOrZero(store[id])
       /\ Len(cards') = Len(cards) =>
             \A j \in 1..Len(cards) :
                 ScoreOrZero(cards'[j].difficultyScore) >= ScoreOrZero(cards[j].difficultyScore)
       /\ Len(inflight') = Len(inflight) + 1 =>
             LET inv == inflight'[Len(inflight')]
             IN cards'[inv.idx].difficultyScore =
                    IF inv.grade \in {Again, Hard}
                    THEN ScoreOrZero(cards[inv.idx].difficultyScore) + 1
                    ELSE cards[inv.idx].difficultyScore
       /\ \A i \in 1..Len(inflight) :
             Writes(i) => store'[inflight[i].cardId] = ScoreOrZero(store[inflight[i].cardId]) + 1
       /\ store' # store => \E i \in 1..Len(inflight) : Writes(i)]_vars

\* C13: the logReview call of every applied grade appends its entry.  The logs
\* store is keyed by studiedAt and db.add rejects a key that is present, so the
\* entry of a grade waiting at logReview can be appended only while no entry
\* with that grade's timestamp is in the log.
C13_EntryPerGrade ==
    \A i \in 1..Len(inflight) :
        inflight[i].pc = "log" => ~KeyPresent(inflight[i].now)

\* C14: the review log is append-only: every entry that is in the log before a
\* step is in the log after it.
C14_AppendOnly == [][logs \subseteq logs']_vars

\* C14 witness: a second entry has been appended to a log that held one.
C14_Witness ==
    /\ Cardinality(logs) = 2
    /\ \E e \in logs : e.studiedAt = 0
    /\ \E e \in logs : e.studiedAt > 0

\* C15: once the session is loaded there is no current card exactly when no
\* card is active and no card is in the easy pool, and a grade input that
\* arrives while there is no current card changes neither the session state
\* nor the store.
C15_Completion ==
    /\ [](~loading => ((currentCardId = NullId) <=> (ActiveCount = 0 /\ EasyPoolCount = 0)))
    /\ [][(currentCardId = NullId /\ inputs' # inputs) =>
             UNCHANGED <<store, persisted, logs, loading, cards, currentCardId, isFlipped, lastShownId,
                         cardsSinceReinforcement, inflight>>]_vars

\* C15 witness: the session over an empty deck has signalled completion and a
\* grade input has arrived since.
C15_Witness ==
    /\ ~loading
    /\ cards = <<>>
    /\ currentCardId = NullId
    /\ pickInfo.branch = "none"
    /\ InputCount > 0
    /\ inflight = <<>>

\* C16: getDueCards(deckId) at time now returns exactly the cards of that deck
\* whose dueDate is at most now, each once.
C16_DueCards ==
    dueResult.deckId # 0 =>
        /\ {dueResult.ids[k] : k \in 1..Len(dueResult.ids)} =
               {i \in 1..Len(cardStore) :
                   /\ cardStore[i].deckId = dueResult.deckId
                   /\ cardStore[i].dueDate[1] <= dueResult.now * cardStore[i].dueDate[2]}
        /\ \A k, l \in 1..Len(dueResult.ids) : dueResult.ids[k] = dueResult.ids[l] => k = l

\* C16 witness: of three cards, the one of the deck that is due exactly now has
\* been returned; the due card of the other deck and the deck's later card
\* have not.
C16_Witness ==
    /\ dueResult.deckId = 1
    /\ dueResult.now = 1
    /\ Len(cardStore) = 3
    /\ cardStore[1] = [deckId |-> 2, dueDate |-> RInt(0)]
    /\ cardStore[2] = [deckId |-> 1, dueDate |-> RInt(1)]
    /\ cardStore[3] = [deckId |-> 1, dueDate |-> RInt(2)]
    /\ dueResult.ids = <<2>>

RECURSIVE CumWeight(_, _)
\* the cumulative weight of the first j cards of a pool given by its scores
CumWeight(sc, j) == IF j = 0 THEN 0 ELSE CumWeight(sc, j - 1) + ScoreOrZero(sc[j]) + 1

\* C17: with weight(c) = difficultyScore(c) + 1 (a missing score counting as 0)
\* and the draw x = Math.random() x totalWeight, the card selected is the one
\* whose slice of the cumulative weights, taken in pool order, holds x: the
\* first card for x = 0, otherwise the card i with cum(i-1) < x <= cum(i).  For
\* the pool [score 0, score 3] the first card is selected for x <= 1 and the
\* second for the rest of [0, 5), a slice 4 times as long.
C17_WeightedSlices ==
    poolPick.draw # Undef =>
        LET sc == poolPick.pool
            i == poolPick.index
            x == poolPick.draw * CumWeight(sc, Len(sc))
        IN /\ i \in 1..Len(sc)
           /\ IF x = 0 THEN i = 1
              ELSE /\ CumWeight(sc, i - 1) * PickDenom < x
                   /\ x <= CumWeight(sc, i) * PickDenom
           /\ sc = <<0, 3>> => (i = 1 <=> poolPick.draw * 5 <= PickDenom)
           /\ sc = <<0, 3>> => (i = 2 <=> poolPick.draw * 5 > PickDenom)

\* C17 witness: in the pool [score 0, score 3] a draw inside the second card's
\* slice has selected the second card.
C17_Witness ==
    /\ poolPick.pool = <<0, 3>>
    /\ poolPick.draw * 5 > 3 * PickDenom
    /\ poolPick.index = 2

C20_DueFirst ==
    [][((loading /\ ~loading') \/ (\E i \in 1..Len(inflight) : Completes(i))) =>
          ((/\ pickInfo'.branch # "reinforcement"
            /\ \E j \in 1..Len(cards') :
                   cards'[j].sessionState = "active" /\ cards'[j].sessionDueTime <= now)
           => \E j \in 1..Len(cards') :
                  /\ cards'[j].id = currentCardId'
                  /\ cards'[j].sessionState = "active"
                  /\ cards'[j].sessionDueTime <= now)]_vars

\* C20 witness: after two grades the pick took a due card although an active
\* card other than the one just shown was not due.
C20_Witness ==
    /\ pickInfo.afterGrade
    /\ pickInfo.branch = "due"
    /\ InputCount >= 2
    /\ \E j \in 1..Len(cards) :
          /\ cards[j].sessionState = "active"
          /\ cards[j].id # pickInfo.prev
          /\ cards[j].sessionDueTime > now

\* the ids of the cards of a pickNextCard call that are in a session state
CallIds(st) ==
    {pickCall.allCards[j].id : j \in {k \in 1..Len(pickCall.allCards) :
                                         pickCall.allCards[k].sessionState = st}}

\* the call makes a reinforcement injection
CallInjects == pickCall.since >= 3 /\ CallIds("easyPool") # {}

\* C21: when pickNextCard has run with at least one active card and without a
\* reinforcement injection, the selected card is an active card (so an
\* easyPool card is selected only by an injection or with no active card);
\* and when the only active card is the one just shown and it is not due, that
\* card is the one selected.
C21_ActiveBeforePool ==
    pickCall.out.branch # "pending" =>
        /\ (CallIds("active") # {} /\ ~CallInjects) =>
               pickCall.out.currentCardId \in CallIds("active")
        /\ pickCall.out.currentCardId \in CallIds("easyPool") =>
               (CallInjects \/ CallIds("active") = {})
        /\ (/\ ~CallInjects
            /\ CallIds("active") = {pickCall.lastShown}
            /\ \A j \in 1..Len(pickCall.allCards) :
                   pickCall.allCards[j].id = pickCall.lastShown =>
                       pickCall.allCards[j].sessionDueTime > SelectNow)
           => pickCall.out.currentCardId = pickCall.lastShown

\* C21 witness: with six cards in the easy pool and no injection, the only
\* active card, just shown and not due, has been selected again.
C21_Witness ==
    /\ pickCall.out.branch = "repeat"
    /\ Cardinality(CallIds("easyPool")) = 6
    /\ CallIds("active") = {7}
    /\ pickCall.lastShown = 7
    /\ pickCall.since < 3
    /\ pickCall.out.currentCardId = 7

\* the step is the synchronous start of handleGrade(g): the switch on the grade
Starts(g) ==
    /\ inputs'[g] = inputs[g] + 1
    /\ Len(inflight') = Len(inflight) + 1

\* C22: the switch of a grade sets the graded card's sessionGoodStreak to 0 for
\* Again and Hard, adds 1 to it for Good, and leaves it unchanged for Easy,
\* which sets sessionConfident; once the grade's due time has been set the card
\* is confident if the grade was Easy or its streak is at least 2, so no card
\* of the session ever has a streak of 2 or more without being confident.
C22_StreakAndConfidence ==
    /\ [](\A j \in 1..Len(cards) :
             cards[j].sessionGoodStreak >= 2 => cards[j].sessionConfident)
    /\ [][\A g \in Grades : Starts(g) =>
            LET inv == inflight'[Len(inflight')]
                b == cards[inv.idx]
                c == cards'[inv.idx]
            IN /\ inv.grade = g
               /\ g \in {Again, Hard} => c.sessionGoodStreak = 0
               /\ g = Good => c.sessionGoodStreak = b.sessionGoodStreak + 1
               /\ g = Easy => c.sessionGoodStreak = b.sessionGoodStreak /\ c.sessionConfident
               /\ (g = Easy \/ (g = Good /\ c.sessionGoodStreak >= 2)) => c.sessionConfident
               /\ c.sessionConfident = (b.sessionConfident \/ g = Easy
                                        \/ (g = Good /\ c.sessionGoodStreak >= 2))]_vars

\* C22 witness: a card that was not confident after one Good grade has been
\* graded Good again and is now confident with a streak of 2.
C22_Witness ==
    \E i \in 1..Len(inflight) :
        /\ inflight[i].pc = "log"
        /\ inflight[i].grade = Good
        /\ inflight[i].before.card.sessionGoodStreak = 1
        /\ ~inflight[i].before.card.sessionConfident
        /\ cards[inflight[i].idx].sessionGoodStreak = 2
        /\ cards[inflight[i].idx].sessionConfident

\* the session-local delay of a grade, in milliseconds
C23_Delay(g) ==
    CASE g = Again -> 1 * 60 * 1000
      [] g = Hard -> 3 * 60 * 1000
      [] g = Good -> 15 * 60 * 1000
      [] g = Easy -> 60 * 60 * 1000

\* the step assigns card.sessionDueTime in invocation i of handleGrade
SetsDue(i) ==
    /\ i \in 1..Len(inflight')
    /\ inflight'[i].pc = "log"
    /\ \/ i = Len(inflight) + 1
       \/ i <= Len(inflight) /\ Len(inflight') = Len(inflight) /\ inflight[i].pc = "put"

\* C23: a grade given at time now sets the graded card's sessionDueTime to
\* now + 1 minute for Again, + 3 minutes for Hard, + 15 minutes for Good and
\* + 1 hour for Easy, whatever the card is, and a step of the session changes
\* the sessionDueTime of no card other than the one whose grade is being
\* applied in that step.
C23_SessionDelay ==
    [][(~loading /\ ~loading') =>
         /\ \A i \in 1..Len(inflight') : SetsDue(i) =>
                cards'[inflight'[i].idx].sessionDueTime =
                    inflight'[i].now + C23_Delay(inflight'[i].grade)
         /\ \A j \in 1..Len(cards) :
                cards'[j].sessionDueTime # cards[j].sessionDueTime =>
                    \E i \in 1..Len(inflight') : SetsDue(i) /\ inflight'[i].idx = j]_vars

\* C23 witness: a Hard grade given one minute into the session has set its
\* card's sessionDueTime to four minutes, while another card of the deck still
\* has its initial sessionDueTime.
C23_Witness ==
    \E i \in 1..Len(inflight) :
        /\ inflight[i].pc = "log"
        /\ inflight[i].grade = Hard
        /\ inflight[i].now = ClockStep
        /\ cards[inflight[i].idx].sessionDueTime = 4 * ClockStep
        /\ \E j \in 1..Len(cards) : j # inflight[i].idx /\ cards[j].sessionDueTime = 0

\* the due cards of the loaded deck in a scheduler state, in store order
C24_Due(st) ==
    Ascending({i \in 1..Len(cardStore) :
                  /\ cardStore[i].deckId = dueResult.deckId
                  /\ RLeq(cardStore[i].dueDate, RInt(dueResult.now))
                  /\ cardStore[i].state = st})

\* the first min(n, number of elements) elements of a sequence
C24_First(seq, n) == SubSeq(seq, 1, Min(n, Len(seq)))

\* C24: once loadCards has run, the queue is all due learning cards, followed
\* by the first min(reviewsPerDay, number due) due review cards, followed by
\* the first min(newCardsPerDay, number due) due new cards, each group in the
\* order of the store, and no card of the queue has a dueDate after now.
C24_AdmittedQueue ==
    ~dueLoading =>
        /\ queue = C24_Due("learning")
                      \o C24_First(C24_Due("review"), settings.reviewsPerDay)
                      \o C24_First(C24_Due("new"), settings.newCardsPerDay)
        /\ \A k \in 1..Len(queue) : RLeq(cardStore[queue[k]].dueDate, RInt(srsNow))

C26_StoreFrame ==
    /\ [](\A id \in DOMAIN persisted :
             /\ persisted[id] = StoredSrs(id)
             /\ DOMAIN persisted[id] \cap SessionFields = {})
    /\ [][/\ persisted' = persisted
          /\ logs \subseteq logs'
          /\ \A id \in DOMAIN store :
                store'[id] # store[id] =>
                    \E i \in 1..Len(inflight) : Writes(i) /\ inflight[i].cardId = id]_vars

\* C26 witness: the Again grade of a card stored as a review card has been
\* written and logged, after the session gave the card a due time and a shown
\* time of its own.
C26_Witness ==
    \E e \in logs :
        /\ e.grade = Again
        /\ e.cardId \in DOMAIN persisted
        /\ persisted[e.cardId].state = "review"
        /\ store[e.cardId] = 2
        /\ \E j \in 1..Len(cards) :
              /\ cards[j].id = e.cardId
              /\ cards[j].sessionDueTime > 0

\* the scheduler yields a due date for the described card and grade
C27_Scheduled == srsDesc.grade = Again \/ srsDesc.card.state # "relearning"

\* C27: a call of getSchedulingDescription leaves the card and the stores as
\* they are, and when the scheduler yields a due date for the card and grade
\* the result is a whole number of at least 1 followed by one unit: m when the
\* delay from the call to the due date is under 1 hour, h when it is under 1
\* day, d otherwise.
C27_Description ==
    /\ [](srsDesc.grade # 0 =>
             /\ srsDesc.card = card
             /\ C27_Scheduled =>
                   LET delay == RSub(srsDesc.out.dueDate, srsDesc.at)
                   IN /\ srsDesc.out.text = "nu"
                      /\ srsDesc.out.n \in Nat
                      /\ srsDesc.out.n >= 1
                      /\ srsDesc.out.unit =
                            (IF 24 * delay[1] < delay[2] THEN "m"
                             ELSE IF delay[1] < delay[2] THEN "h" ELSE "d"))
    /\ [][card' = card /\ store' = store /\ persisted' = persisted /\ logs' = logs
            /\ cardStore' = cardStore]_vars

\* C27 witness: a learning card graded Hard under learningSteps = [60], due in
\* 90 minutes, has been described as 2 hours.
C27_Witness ==
    /\ srsDesc.grade = Hard
    /\ card.state = "learning"
    /\ settings.learningSteps = <<60>>
    /\ srsDesc.at = RInt(srsNow)
    /\ srsDesc.out.n = 2
    /\ srsDesc.out.unit = "h"

\* C28: in a session over a deck of at least one card, once initialization is
\* done there is a current card in every state, the last run of pickNextCard
\* did not end without a card, and at least one card is active or in the easy
\* pool.
C28_NeverComplete ==
    (~loading /\ Len(cards) >= 1) =>
        /\ currentCardId # NullId
        /\ IndexOfId(cards, currentCardId) # 0
        /\ pickInfo.branch # "none"
        /\ ActiveCount + EasyPoolCount >= 1

\* C28 witness: all six cards of the deck have been promoted, no card is
\* active, and the grade that promoted them has ended with a current card taken
\* from the easy pool.
C28_Witness ==
    /\ ~loading
    /\ ActiveCount = 0
    /\ EasyPoolCount = 6
    /\ pickInfo.afterGrade
    /\ pickInfo.branch = "pool"
    /\ currentCardId # NullId

\* the cards that are active and confident
ConfidentActive(allCards) ==
    {j \in 1..Len(allCards) :
        allCards[j].sessionState = "active" /\ allCards[j].sessionConfident}

\* C29: the step that completes a grade ends with at most 5 cards that are
\* active and confident.
C29_ConfidentBound ==
    [][(\E i \in 1..Len(inflight) : Completes(i)) =>
          Cardinality(ConfidentActive(cards')) <= 5]_vars

\* C30: once the session is initialized, in every state exactly 10 cards are
\* active or no card is unseen; and a step that leaves fewer cards active than
\* before is one that moves cards from active to the easy pool.
C30_NoFreeSlot ==
    /\ [](~loading => (ActiveCount = 10 \/ UnseenCount = 0))
    /\ [][(~loading /\ Len(ActiveIdx(cards')) < ActiveCount) =>
             \E j \in 1..Len(cards) :
                 cards[j].sessionState = "active" /\ cards'[j].sessionState = "easyPool"]_vars

\* C30 witness: in the deck of 12 a promotion of six cards has taken the last
\* two unseen cards into the batch, which now holds six cards.
C30_Witness ==
    /\ ~loading
    /\ Len(cards) = 12
    /\ EasyPoolCount = 6
    /\ ActiveCount = 6
    /\ UnseenCount = 0

\* C31: no step of the session takes a card's sessionConfident from true to
\* false, and in every state every card of the easy pool is confident.
C31_ConfidentSticks ==
    /\ [](\A j \in 1..Len(cards) :
             cards[j].sessionState = "easyPool" => cards[j].sessionConfident)
    /\ [][Len(cards') = Len(cards) =>
             \A j \in 1..Len(cards) :
                 cards[j].sessionConfident => cards'[j].sessionConfident]_vars

\* C31 witness: a Hard grade of a confident card has completed: its entry is in
\* the log, the card's streak is 0 and the card is still confident.
C31_Witness ==
    /\ inflight = <<>>
    /\ \E e \in logs :
          /\ e.grade = Hard
          /\ \E j \in 1..Len(cards) :
                /\ cards[j].id = e.cardId
                /\ cards[j].lastShownAt = e.studiedAt
                /\ cards[j].sessionGoodStreak = 0
                /\ cards[j].sessionConfident

\* C32: from a state with no unseen card and at most 5 active cards, no step
\* changes any card's sessionState; and in a session over a deck of 5 or fewer
\* cards no card is ever in the easy pool and no pick is a reinforcement
\* injection.
C32_NoMorePromotion ==
    /\ []((~loading /\ Len(cards) <= 5) =>
             (EasyPoolCount = 0 /\ pickInfo.branch # "reinforcement"))
    /\ [][(~loading /\ UnseenCount = 0 /\ ActiveCount <= 5) =>
             /\ Len(cards') = Len(cards)
             /\ \A j \in 1..Len(cards) : cards'[j].sessionState = cards[j].sessionState]_vars

\* C32 witness: in the deck of five every card has been graded Easy and is
\* confident, and all five are still active after the fifth grade completed.
C32_Witness ==
    /\ Len(cards) = 5
    /\ inflight = <<>>
    /\ Cardinality(logs) >= 5
    /\ \A j \in 1..Len(cards) :
          cards[j].sessionConfident /\ cards[j].sessionState = "active"

\* C33: whenever every grade given so far has completed (none is waiting for
\* the store), every card's difficultyScore in the session equals the score
\* stored for that card, a missing score counting as 0.
C33_ScoresAgree ==
    (~loading /\ inflight = <<>> /\ Cardinality(logs) = InputCount) =>
        \A j \in 1..Len(cards) :
            ScoreOrZero(cards[j].difficultyScore) = ScoreOrZero(store[cards[j].id])

\* C34: whenever initializeSession completes, at the first start or after
\* Restart, every card is unseen or active with streak 0, not confident and due
\* time 0, the counter of cards since the last reinforcement is 0, and no card
\* other than the one now shown is remembered as last shown.
C34_RestartIsFresh ==
    [][(loading /\ ~loading') =>
          /\ \A j \in 1..Len(cards') :
                /\ cards'[j].sessionState \in {"unseen", "active"}
                /\ cards'[j].sessionGoodStreak = 0
                /\ ~cards'[j].sessionConfident
                /\ cards'[j].sessionDueTime = 0
          /\ cardsSinceReinforcement' = 0
          /\ lastShownId' \in {NullId, currentCardId'}]_vars

\* C35: every non-empty update of calculateNextReview has state learning or
\* review; the update is empty exactly when a relearning card is graded Hard,
\* Good or Easy, and then the card is left unchanged, due date included; and a
\* card in state new, learning or review is in one of those states after any
\* grade.
C35_States ==
    /\ [](srsLast.grade # 0 =>
             /\ (DOMAIN srsLast.updates # {} => srsLast.updates.state \in {"learning", "review"})
             /\ (DOMAIN srsLast.updates = {} <=>
                    (srsLast.before.state = "relearning" /\ srsLast.grade # Again))
             /\ (DOMAIN srsLast.updates = {} => card = srsLast.before))
    /\ [][card.state \in {"new", "learning", "review"} =>
             card'.state \in {"new", "learning", "review"}]_vars

\* C35 witness: a relearning card was graded Good, the update was empty and the
\* card is as it was, still relearning with the same due date.
C35_Witness ==
    /\ srsLast.grade = Good
    /\ srsLast.before.state = "relearning"
    /\ DOMAIN srsLast.updates = {}
    /\ card.state = "relearning"
    /\ card.dueDate = srsLast.before.dueDate

\* C36: for the card created new with no repetitions and interval 0, under the
\* default settings: whenever the card is in review it has at least one
\* repetition and an interval of at least one day, and a Hard, Good or Easy
\* grade of the card in review never makes its interval smaller.
C36_ReviewGrows ==
    /\ [](card.state = "review" =>
             (card.repetitions >= 1 /\ RLeq(RInt(1), card.intervalDays)))
    /\ [][(card.state = "review" /\ srsCount' = srsCount + 1 /\ srsLast'.grade # Again) =>
             RLeq(card.intervalDays, card'.intervalDays)]_vars

\* C36 witness: the new card has graduated and then been graded Hard in
\* review: it has two repetitions and an interval of 1.2 days.
C36_Witness ==
    /\ srsLast.grade = Hard
    /\ srsLast.before.state = "review"
    /\ srsLast.before.intervalDays = RInt(1)
    /\ card.state = "review"
    /\ card.repetitions = 2
    /\ card.intervalDays = <<6, 5>>

QueueIds == {queue[k] : k \in 1..Len(queue)}

\* a step in which a handleGrade invocation runs to its end
GradeCompletes == Len(dueLog') = Len(dueLog) + 1

\* the current card is the head of the queue, and no card is in the queue twice
HeadOfQueue ==
    /\ currentCard = (IF queue = <<>> THEN NullId ELSE queue[1])
    /\ \A k, l \in 1..Len(queue) : queue[k] = queue[l] => k = l

\* a completing grade leaves its card in the queue exactly when the card's new
\* dueDate is at most 20 minutes after the clock, and then at an index (from 0)
\* between min(length, 3) and min(length, 5) of the queue without its head
ReinsertedIfSoon ==
    GradeCompletes =>
        LET inv == grading[1]
            soon == IsDueSoon(inv.updatedCard, srsNow)
            length == Len(queue') - 1
        IN /\ (inv.cardId \in {queue'[k] : k \in 1..Len(queue')}) <=> soon
           /\ soon => \E at \in Min(length, 3)..Min(length, 5) : queue'[at + 1] = inv.cardId

\* a card that is not in the queue enters it only at the mount or when a grade
\* of that card completes
EntersOnlyGraded ==
    \A id \in 1..Len(cardStore) :
        (id \notin QueueIds /\ id \in {queue'[k] : k \in 1..Len(queue')}) =>
            \/ dueLoading
            \/ GradeCompletes /\ grading[1].cardId = id

\* C38: in the due-card session the current card is always the head of the
\* queue and no card is in the queue twice; after a grade the graded card is in
\* the queue if and only if its newly scheduled dueDate is at most now + 20
\* minutes, then at an index between min(length, 3) and min(length, 5); and a
\* card that left the queue comes back only through a grade of its own.
C38_QueueDiscipline ==
    /\ []HeadOfQueue
    /\ [][ReinsertedIfSoon]_vars
    /\ [][EntersOnlyGraded]_vars

\* the grades given to card id so far, completed or waiting for the store
GradesOf(id) ==
    Cardinality({k \in 1..Len(dueLog) : dueLog[k].cardId = id}) +
    Cardinality({k \in 1..Len(grading) : grading[k].cardId = id})

\* every grade given so far is Good or Easy
OnlyGoodOrEasy ==
    /\ \A k \in 1..Len(dueLog) : dueLog[k].grade \in {Good, Easy}
    /\ \A k \in 1..Len(grading) : grading[k].grade \in {Good, Easy}

\* under Good and Easy grades no card is graded twice, and when the session
\* has no current card every admitted card has been graded once
OnceEach ==
    (settings = DEFAULT_SETTINGS /\ OnlyGoodOrEasy) =>
        /\ \A id \in 1..Len(cardStore) : GradesOf(id) <= 1
        /\ (~dueLoading /\ currentCard = NullId /\ grading = <<>>) =>
              /\ Len(dueLog) = Len(cardStore)
              /\ \A id \in 1..Len(cardStore) : GradesOf(id) = 1

\* a completing Again grade leaves its card in the queue, and a card leaves
\* the queue only while it is the current card
AgainComesBack ==
    settings = DEFAULT_SETTINGS =>
        /\ (GradeCompletes /\ grading[1].grade = Again) =>
              grading[1].cardId \in {queue'[k] : k \in 1..Len(queue')}
        /\ \A id \in QueueIds :
              id \notin {queue'[k] : k \in 1..Len(queue')} => id = currentCard

\* C39: in the due-card session under the default settings, if every grade
\* given is Good or Easy each admitted card is graded exactly once and the
\* session has no current card after as many grades as cards were admitted; and
\* a card graded Again stays in the queue until it is shown again.
C39_GradedOnce ==
    /\ []OnceEach
    /\ [][AgainComesBack]_vars

====
